---- MODULE Spec2Model ----
(***************************************************************************)
(* A model of the numerical core of Schroedinger-Approximation: the        *)
(* chunked trapezoidal integrator, the sampler, the Newton / regula-falsi  *)
(* root finders with zero deflation, and the piecewise wave function.      *)
(*                                                                         *)
(* f64 is modelled by a small binary floating-point format of the same     *)
(* shape (sign, MantBits significant bits, round-to-nearest ties-to-even,  *)
(* gradual underflow, overflow to infinity, NaN).  A number is stored as   *)
(* the integer count of its smallest units: the real value of the stored   *)
(* integer v is v / Scale.                                                 *)
(***************************************************************************)
EXTENDS Integers, Sequences, FiniteSets, TLC

\* ------------------------------------------------------------------ bounds
MantBits == 5
FracBits == 4
MaxExp == 8
MaxPoints == 6
MaxBatch == 3
MaxN == 5

\* ------------------------------------------------------- f64 (scaled down)
Scale == 2 ^ FracBits
MaxFinite == (2 ^ MantBits - 1) * 2 ^ MaxExp
PInf == 4 * MaxFinite
NInf == 0 - PInf
NaN == PInf + 1

Abs(n) == IF n < 0 THEN 0 - n ELSE n

IsNaN(a) == a = NaN
IsInf(a) == a = PInf \/ a = NInf
IsFinite(a) == ~IsNaN(a) /\ ~IsInf(a)

RECURSIVE RoundMag(_, _, _)
\* the multiple of D/d nearest to a/d, ties to the even multiple, for the least
\* D = d * 2^e (e >= 0) at which the multiple has at most MantBits bits
RoundMag(a, d, D) ==
    IF a >= D * 2 ^ MantBits THEN RoundMag(a, d, 2 * D)
    ELSE ((a \div D)
          + (IF 2 * (a % D) > D \/ (2 * (a % D) = D /\ (a \div D) % 2 = 1) THEN 1 ELSE 0))
         * (D \div d)

\* the magnitude m with the sign of n, or the infinity when it is out of range
Signed(n, m) ==
    IF m > MaxFinite THEN (IF n < 0 THEN NInf ELSE PInf)
    ELSE IF n < 0 THEN 0 - m ELSE m

\* the float nearest to the rational n/d (d > 0), ties to the even mantissa
RoundToFloat(n, d) == Signed(n, RoundMag(Abs(n), d, d))

FromInt(k) == k * Scale

FNeg(a) == IF IsNaN(a) THEN NaN ELSE 0 - a

FAdd(a, b) ==
    IF IsNaN(a) \/ IsNaN(b) THEN NaN
    ELSE IF IsInf(a) /\ IsInf(b) THEN (IF a = b THEN a ELSE NaN)
    ELSE IF IsInf(a) THEN a
    ELSE IF IsInf(b) THEN b
    ELSE RoundToFloat(a + b, 1)

FSub(a, b) == FAdd(a, FNeg(b))

Sign(a) == IF a < 0 THEN 0 - 1 ELSE IF a > 0 THEN 1 ELSE 0

FMul(a, b) ==
    IF IsNaN(a) \/ IsNaN(b) THEN NaN
    ELSE IF IsInf(a) \/ IsInf(b)
         THEN (IF a = 0 \/ b = 0 THEN NaN
               ELSE IF Sign(a) * Sign(b) > 0 THEN PInf ELSE NInf)
    ELSE RoundToFloat(a * b, Scale)

FDiv(a, b) ==
    IF IsNaN(a) \/ IsNaN(b) THEN NaN
    ELSE IF IsInf(a) THEN (IF IsInf(b) THEN NaN
                           ELSE IF Sign(a) * (IF b < 0 THEN 0 - 1 ELSE 1) > 0
                                THEN PInf ELSE NInf)
    ELSE IF IsInf(b) THEN 0
    ELSE IF b = 0 THEN (IF a = 0 THEN NaN ELSE IF a > 0 THEN PInf ELSE NInf)
    ELSE RoundToFloat((IF b < 0 THEN 0 - a ELSE a) * Scale, Abs(b))

\* IEEE comparisons: every comparison with NaN is false
FLt(a, b) == ~IsNaN(a) /\ ~IsNaN(b) /\ a < b
FLe(a, b) == ~IsNaN(a) /\ ~IsNaN(b) /\ a <= b
FGt(a, b) == FLt(b, a)
FGe(a, b) == FLe(b, a)
FEq(a, b) == ~IsNaN(a) /\ ~IsNaN(b) /\ a = b
FAbs(a) == IF IsNaN(a) THEN NaN ELSE Abs(a)

\* ------------------------------------------------------------- Complex64
complex(re, im) == <<re, im>>
CAdd(c1, c2) == <<FAdd(c1[1], c2[1]), FAdd(c1[2], c2[2])>>
CMul(c1, c2) == <<FSub(FMul(c1[1], c2[1]), FMul(c1[2], c2[2])),
                  FAdd(FMul(c1[1], c2[2]), FMul(c1[2], c2[1]))>>
norm_sqr(c) == FAdd(FMul(c[1], c[1]), FMul(c[2], c[2]))
CDiv(c1, c2) ==
    LET ns == norm_sqr(c2)
        re == FAdd(FMul(c1[1], c2[1]), FMul(c1[2], c2[2]))
        im == FSub(FMul(c1[2], c2[1]), FMul(c1[1], c2[2]))
    IN  <<FDiv(re, ns), FDiv(im, ns)>>

\* ------------------------------------------------------------------ state
VARIABLES
    points,      \* integrate: the Vec<Point> it was given
    batch_size,  \* integrate: the chunk size
    src,         \* the evaluate_function_between call that made the points, if any
    samples,     \* evaluate_function_between: the slots of the collected Vec
    filled,      \* evaluate_function_between: the indices the parallel map has produced
    ipc,         \* position: "sample", "start", "par", "rest", "done", "panic"
    work,        \* integrate: the tasks of the parallel sum, in index order
    parallel,    \* integrate: the reduced sum of the chunk sums
    rest,        \* integrate: the running sum of the cross-chunk panels
    ri,          \* integrate: the index of the sequential loop
    result,      \* integrate: the value returned
    counted      \* history: how often each pair of points was used as a panel

integVars == <<points, batch_size, src, samples, filled, ipc, work, parallel,
               rest, ri, result, counted>>

VARIABLES
    nop,      \* the root-finding function that was called
    nf,       \* its argument f
    nprec,    \* its argument precision
    nmax,     \* newtons_method_max_iters: max_iters
    guess,    \* newtons_method(_max_iters): guess; bisection: initial_guess
    iters,    \* passes of the loop begun (newtons_method: counted up to MaxIters)
    bstep,    \* bisection_search_sign_change: step
    bresult,  \* bisection_search_sign_change: result
    ra,       \* regula_falsi_method: a; make_guess: start
    rb,       \* regula_falsi_method: b; make_guess: end
    rc,       \* regula_falsi_method: c
    gn,       \* make_guess: n
    npc,      \* position: "newton", "bounded", "bisect", "regula_start", "regula",
              \* "make_guess", "returned", "panicked", "idle"
    nout,     \* the value returned
    bracket   \* history: a and b as regula_falsi_method had them before its loop

newtonVars == <<nop, nf, nprec, nmax, guess, iters, bstep, bresult, ra, rb, rc, gn,
                npc, nout, bracket>>

VARIABLES
    ff,              \* NewtonsMethodFindNewZero: f
    fprec,           \* NewtonsMethodFindNewZero: precision
    fmax,            \* NewtonsMethodFindNewZero: max_iters
    previous_zeros,  \* NewtonsMethodFindNewZero: previous_zeros
    calls,           \* the number of next_zero calls made
    fret             \* what the last next_zero call returned

finderVars == <<ff, fprec, fmax, previous_zeros, calls, fret>>

VARIABLES
    parts,         \* WaveFunction: parts, each with its range
    approx_inf,    \* WaveFunction::new: approx_inf
    scaling_type,  \* WaveFunction::new: scaling
    scaling,       \* WaveFunction: scaling
    wpc,           \* position: "new", "built", "panicked", "idle"
    reported,      \* "Can't renormalize, area under Psi is 0." has been printed
    wcall,         \* the last call of calc_psi or eval, and what it returned
    wview,         \* WaveFunction: view
    boundaries,    \* WaveFunction::new: boundaries.ts, as AiryWaveFunction::new returned it
    airy_ranges,   \* WaveFunction: airy_ranges
    wkb_ranges,    \* WaveFunction: wkb_ranges
    assembly       \* history: the branch that built the parts, "pure_wkb" or "approx";
                   \* "none" when the parts were given as they are

assembled == <<wview, boundaries, airy_ranges, wkb_ranges, assembly>>
waveVars == <<parts, approx_inf, scaling_type, scaling, wpc, reported, wcall, assembled>>

VARIABLES
    phase,         \* find_zeros: phase
    view,          \* find_zeros: view
    zeros,         \* find_zeros: zeros, the NewtonsMethodFindNewZero
    attempt,       \* the iterations of (0..MAX_TURNING_POINTS) that are over
    gtasks,        \* make_guess: the tasks of the parallel map, and the list each reads
    gpoints,       \* make_guess: points
    zguess,        \* find_zeros: guess
    zpc,           \* position: "loop", "make_guess", "next_zero", "returned", "idle"
    unique_zeros   \* find_zeros: unique_zeros

zerosVars == <<phase, view, zeros, attempt, gtasks, gpoints, zguess, zpc, unique_zeros>>

VARIABLES
    ts_phase,      \* group_ts: phase
    ts_zeros,      \* group_ts: zeros
    zero_sign,     \* the sign the arithmetic gives a derivative that is zero
    derivatives,   \* group_ts: derivatives, the (sign, zero) pairs
    groups,        \* group_ts: groups.ts
    ts_guess,      \* group_ts: guess
    new_deriv,     \* group_ts: new_deriv
    missing_t,     \* group_ts: missing_t
    ts_i,          \* group_ts: i
    frame,         \* the locals of the function group_ts is calling
    tpc            \* position in group_ts, "returned", "panicked" or "idle"; a call
                   \* that does not return leaves the position where it is

groupVars ==
    <<ts_phase, ts_zeros, zero_sign, derivatives, groups, ts_guess, new_deriv, missing_t,
      ts_i, frame, tpc>>

VARIABLES
    airy,         \* ApproxPart::new: its argument airy (an AiryWaveFunction with its ts)
    wkb,          \* ApproxPart::new: its argument wkb
    airy_join_l,  \* ApproxPart: the Joint around airy.ts.0
    airy_join_r,  \* ApproxPart: the Joint around airy.ts.1
    jpc,          \* position: "new", "built" or "idle"
    jcall         \* the last call of ApproxPart::eval or of Joint::eval

jointVars == <<airy, wkb, airy_join_l, airy_join_r, jpc, jcall>>

\* the variables of the other subsystems, which a subsystem's steps leave alone
otherThanInteg == <<newtonVars, finderVars, waveVars, zerosVars, groupVars, jointVars>>
otherThanNewton == <<integVars, finderVars, waveVars, zerosVars, groupVars, jointVars>>
otherThanFinder == <<integVars, newtonVars, waveVars, zerosVars, groupVars, jointVars>>
otherThanWave == <<integVars, newtonVars, finderVars, zerosVars, groupVars, jointVars>>
otherThanZeros == <<integVars, newtonVars, finderVars, waveVars, groupVars, jointVars>>
otherThanGroup == <<integVars, newtonVars, finderVars, waveVars, zerosVars, jointVars>>
otherThanJoint == <<integVars, newtonVars, finderVars, waveVars, zerosVars, groupVars>>

\* what a function returned
NoOut == [kind |-> "unset", v |-> 0, w |-> 0]
F64(v) == [kind |-> "f64", v |-> v, w |-> 0]
Pair(v, w) == [kind |-> "pair", v |-> v, w |-> w]
Some(v) == [kind |-> "Some", v |-> v, w |-> 0]
None == [kind |-> "None", v |-> 0, w |-> 0]

\* a function value: a polynomial, the validity function of a phase or its
\* energy - potential, or a finder's modified function of one of these
Fn(roots) ==
    [kind |-> "poly", roots |-> roots, mass |-> 0, energy |-> 0,
     mod |-> FALSE, zeros |-> <<>>, prec |-> 0]
ModFn(roots, pz, prec) ==
    [kind |-> "poly", roots |-> roots, mass |-> 0, energy |-> 0,
     mod |-> TRUE, zeros |-> pz, prec |-> prec]
\* Phase: energy, mass, potential (a polynomial, given by its roots)
Phase(energy, mass, potential) == [energy |-> energy, mass |-> mass, potential |-> potential]
\* validity_func(phase) and |x| zeros.modified_func(x) over it
ValidFn(ph) ==
    [kind |-> "valid", roots |-> ph.potential, mass |-> ph.mass, energy |-> ph.energy,
     mod |-> FALSE, zeros |-> <<>>, prec |-> 0]
ModValidFn(ph, pz, prec) ==
    [kind |-> "valid", roots |-> ph.potential, mass |-> ph.mass, energy |-> ph.energy,
     mod |-> TRUE, zeros |-> pz, prec |-> prec]
\* |x| phase.energy - (phase.potential)(x)
EnergyFn(ph) ==
    [kind |-> "energy", roots |-> ph.potential, mass |-> ph.mass, energy |-> ph.energy,
     mod |-> FALSE, zeros |-> <<>>, prec |-> 0]

\* no call of this subsystem is in progress
IntegIdle ==
    /\ points = <<>> /\ batch_size = 1 /\ samples = <<>> /\ filled = {}
    /\ src = [used |-> FALSE, f |-> "square", a |-> 0, b |-> 0, n |-> 0]
    /\ ipc = "idle" /\ work = <<>> /\ parallel = <<0, 0>> /\ rest = <<0, 0>>
    /\ ri = 0 /\ result = <<0, 0>> /\ counted = <<>>
\* no function is being called
NoFrame == [fn |-> "none", guess |-> 0, step |-> 0, result |-> 0, a |-> 0, b |-> 0, c |-> 0]
\* an approximant whose eval(x) is slope * x + offset + i im; ts is AiryWaveFunction::ts
Approximant(slope, offset, im, ts) ==
    [slope |-> slope, offset |-> offset, im |-> im, ts |-> ts]
NoApproximant == Approximant(0, 0, 0, <<0, 0>>)
Joint(left, right, cut, delta) == [left |-> left, right |-> right, cut |-> cut, delta |-> delta]
NoJoint == Joint(NoApproximant, NoApproximant, 0, 0)
NoJointCall == [op |-> "none", joint |-> "none", x |-> 0, v |-> <<0, 0>>]
JointIdle ==
    /\ airy = NoApproximant /\ wkb = NoApproximant /\ airy_join_l = NoJoint
    /\ airy_join_r = NoJoint /\ jpc = "idle" /\ jcall = NoJointCall
GroupIdle ==
    /\ ts_phase = Phase(0, 0, <<>>) /\ ts_zeros = <<>> /\ zero_sign = FromInt(1)
    /\ derivatives = <<>> /\ groups = <<>> /\ ts_guess = 0 /\ new_deriv = 0
    /\ missing_t = 0 /\ ts_i = 0 /\ frame = NoFrame /\ tpc = "idle"
ZerosIdle ==
    /\ phase = Phase(0, 0, <<>>) /\ view = <<0, 0>>
    /\ zeros = [precision |-> 0, max_iters |-> 0, previous_zeros |-> <<>>]
    /\ attempt = 0 /\ gtasks = <<>> /\ gpoints = <<>> /\ zguess = None
    /\ zpc = "idle" /\ unique_zeros = <<>>
NoCall == [op |-> "none", x |-> 0, ok |-> TRUE, v |-> <<0, 0>>]
WaveIdle ==
    /\ parts = <<>> /\ approx_inf = <<0, 0>> /\ scaling_type = [kind |-> "None", s |-> <<0, 0>>]
    /\ scaling = <<0, 0>> /\ wpc = "idle" /\ reported = FALSE /\ wcall = NoCall
    /\ wview = <<0, 0>> /\ boundaries = <<>> /\ airy_ranges = <<>> /\ wkb_ranges = <<>>
    /\ assembly = "none"
FinderIdle ==
    /\ ff = <<>> /\ fprec = 0 /\ fmax = 0 /\ previous_zeros = <<>> /\ calls = 0
    /\ fret = NoOut
NewtonIdle ==
    /\ nop = "none" /\ nf = Fn(<<>>) /\ nprec = 0 /\ nmax = 0 /\ guess = 0
    /\ iters = 0 /\ bstep = 0 /\ bresult = 0 /\ ra = 0 /\ rb = 0 /\ rc = 0 /\ gn = 0
    /\ npc = "idle" /\ nout = NoOut /\ bracket = <<0, 0>>

zero == complex(0, 0)

Point(x, y) == [x |-> x, y |-> y]

\* ------------------------------------------------------------ main.rs
trapezoidal_approx(start, end) ==
    CDiv(CMul(complex(FSub(end.x, start.x), 0), CAdd(start.y, end.y)),
         complex(FromInt(2), 0))

index_to_range(x, in_min, in_max, out_min, out_max) ==
    FAdd(FDiv(FMul(FSub(x, in_min), FSub(out_max, out_min)), FSub(in_max, in_min)),
         out_min)

\* the functions handed to evaluate_function_between
Funcs == {"square", "diag"}
Eval(f, x) == IF f = "square" THEN complex(FMul(x, x), 0) ELSE complex(x, x)

\* points.chunks(batch_size): batch k as the index range <<first, last>> of its slice
NumBatches(n, c) == (n + c - 1) \div c
Batch(n, c, k) == <<(k - 1) * c + 1, IF k * c < n THEN k * c ELSE n>>

\* the pairs of points one batch's closure uses as panels:
\* for i in 0..(batch.len() - 1) { ... (&batch[i], &batch[i + 1]) }
BatchPairs(b) == [j \in 1 .. (b[2] - b[1]) |-> <<b[1] + j - 1, b[1] + j>>]

RECURSIVE SumPanels(_, _, _, _)
\* sum += trapezoidal_approx(..) over the pairs, in order
SumPanels(pts, pairs, j, sum) ==
    IF j > Len(pairs) THEN sum
    ELSE SumPanels(pts, pairs, j + 1,
                   CAdd(sum, trapezoidal_approx(pts[pairs[j][1]], pts[pairs[j][2]])))
BatchSum(pts, b) == SumPanels(pts, BatchPairs(b), 1, zero)

RECURSIVE LeafSum(_, _, _, _, _)
\* one task of the parallel sum folds the chunk sums of its batches k..hi
LeafSum(pts, c, k, hi, sum) ==
    IF k > hi THEN sum
    ELSE LeafSum(pts, c, k + 1, hi, CAdd(sum, BatchSum(pts, Batch(Len(pts), c, k))))

\* mutant: the step takes the first point of batch i, not its last
RestPair_FirstOfBatch(n, c, i) == <<Batch(n, c, i)[1], Batch(n, c, i + 1)[1]>>

\* the pair the sequential loop's step i (1-based) uses:
\* (&batches[i][batches[i].len() - 1], &batches[i + 1][0])
RestPair(n, c, i) == <<Batch(n, c, i)[2], Batch(n, c, i + 1)[1]>>
RestPanel(pts, c, i) ==
    LET p == RestPair(Len(pts), c, i) IN trapezoidal_approx(pts[p[1]], pts[p[2]])

\* the number of steps of `for i in 0..batches.len() - 1`
RestSteps(nb) == nb - 1

\* mutant: the guard for short sequences is missing
EarlyReturn_Missing(pts) == FALSE

\* if points.len() < 2 { return complex(0.0, 0.0) }
EarlyReturn(pts) == Len(pts) < 2

\* if a == b { return vec![] }
SameBounds(a, b) == FEq(a, b)

RECURSIVE RestSum(_, _, _, _)
RestSum(pts, c, i, sum) ==
    IF i > RestSteps(NumBatches(Len(pts), c)) THEN sum
    ELSE RestSum(pts, c, i + 1, CAdd(sum, RestPanel(pts, c, i)))

\* integrate as one worker runs it: every sum in index order
IntegrateSequential(pts, c) ==
    IF EarlyReturn(pts) THEN zero
    ELSE CAdd(LeafSum(pts, c, 1, NumBatches(Len(pts), c), zero), RestSum(pts, c, 1, zero))

\* mutant: the index range ends at n, not n - 1
SamplePos_UpToN(i, a, b, n) == index_to_range(FromInt(i), 0, FromInt(n), a, b)

\* the position of item i (0-based) of evaluate_function_between's map
SamplePos(i, a, b, n) ==
    index_to_range(FromInt(i), 0, FSub(FromInt(n), FromInt(1)), a, b)

\* the slot of the collected Vec that item i (0-based) is written to
SampleSlot(i) == i + 1

NoCount == [p \in {} |-> 0]
Occurrences(pairs, p) == Cardinality({j \in DOMAIN pairs : pairs[j] = p})
\* the history after the pairs of a sequence have been used as panels
Count(cnt, pairs) ==
    [p \in DOMAIN cnt \cup {pairs[j] : j \in DOMAIN pairs} |->
        (IF p \in DOMAIN cnt THEN cnt[p] ELSE 0) + Occurrences(pairs, p)]

RECURSIVE LeafPairs(_, _, _, _)
\* the pairs the closures of batches k..hi use, in order
LeafPairs(n, c, k, hi) ==
    IF k > hi THEN <<>> ELSE BatchPairs(Batch(n, c, k)) \o LeafPairs(n, c, k + 1, hi)

Task(lo, hi, path, done, val) ==
    [lo |-> lo, hi |-> hi, path |-> path, done |-> done, val |-> val]

\* ------------------------------------------------------------------ inputs
YVals == {complex(2, 0), complex(2 ^ (MantBits + 1), 2)}
DirectPoints ==
    UNION {{[i \in 1 .. n |-> Point(FromInt(i - 1), y[i])] : y \in [1 .. n -> YVals]}
           : n \in 0 .. MaxPoints}
BoundVals == {FromInt(0 - 2), FromInt(2), 0 - 1, 2 ^ MantBits}
NoSrc == [used |-> FALSE, f |-> "square", a |-> 0, b |-> 0, n |-> 0]

InitInteg ==
    /\ batch_size \in 1 .. MaxBatch
    /\ \/ /\ src = NoSrc
          /\ points \in DirectPoints
          /\ ipc = "start"
       \/ /\ src \in [used : {TRUE}, f : Funcs, a : BoundVals, b : BoundVals,
                      n : 0 .. MaxN]
          /\ points = <<>>
          /\ ipc = "sample"
    /\ samples = [i \in 1 .. src.n |-> Point(0, zero)]
    /\ filled = {}
    /\ work = <<>>
    /\ parallel = zero
    /\ rest = zero
    /\ ri = 0
    /\ result = zero
    /\ counted = NoCount
    /\ NewtonIdle
    /\ FinderIdle
    /\ WaveIdle
    /\ ZerosIdle
    /\ GroupIdle
    /\ JointIdle

\* ------------------------------------------- evaluate_function_between
\* one item of (0..n).into_par_iter().map(..).map(..), run by any worker
MapItem(i) ==
    /\ ipc = "sample"
    /\ ~SameBounds(src.a, src.b)
    /\ i \in 0 .. (src.n - 1)
    /\ SampleSlot(i) \notin filled
    /\ LET x == SamplePos(i, src.a, src.b, src.n)
       IN  samples' = [samples EXCEPT ![SampleSlot(i)] = Point(x, Eval(src.f, x))]
    /\ filled' = filled \cup {SampleSlot(i)}
    /\ UNCHANGED otherThanInteg
    /\ UNCHANGED <<points, batch_size, src, ipc, work, parallel, rest, ri, result,
                   counted>>

\* .collect(), or the early return of the empty Vec
Collect ==
    /\ ipc = "sample"
    /\ SameBounds(src.a, src.b) \/ filled = 1 .. src.n
    /\ points' = IF SameBounds(src.a, src.b) THEN <<>> ELSE samples
    /\ counted' = NoCount
    /\ ipc' = "start"
    /\ UNCHANGED otherThanInteg
    /\ UNCHANGED <<batch_size, src, samples, filled, work, parallel, rest, ri, result>>

\* ------------------------------------------------------------- integrate
IntegrateStart ==
    /\ ipc = "start"
    /\ LET nb == NumBatches(Len(points), batch_size)
       IN  IF EarlyReturn(points)
           THEN /\ result' = zero
                /\ ipc' = "done"
                /\ work' = work
           ELSE IF nb = 0
           THEN \* batches.len() - 1 underflows
                /\ ipc' = "panic"
                /\ UNCHANGED <<result, work>>
           ELSE /\ work' = <<Task(1, nb, <<>>, FALSE, zero)>>
                /\ ipc' = "par"
                /\ result' = result
    /\ UNCHANGED otherThanInteg
    /\ UNCHANGED <<points, batch_size, src, samples, filled, parallel, rest, ri,
                   counted>>

\* the parallel sum halves a task that has not started
ParSplit(i) ==
    /\ ipc = "par"
    /\ i \in 1 .. Len(work)
    /\ ~work[i].done
    /\ work[i].hi > work[i].lo
    /\ LET t == work[i]
           mid == (t.hi - t.lo + 1) \div 2
           l == Task(t.lo, t.lo + mid - 1, Append(t.path, 0), FALSE, zero)
           r == Task(t.lo + mid, t.hi, Append(t.path, 1), FALSE, zero)
       IN  work' = SubSeq(work, 1, i - 1) \o <<l, r>> \o SubSeq(work, i + 1, Len(work))
    /\ UNCHANGED otherThanInteg
    /\ UNCHANGED <<points, batch_size, src, samples, filled, ipc, parallel, rest, ri,
                   result, counted>>

\* a worker runs a task: the chunk sums of its batches, summed in order
ParFold(i) ==
    /\ ipc = "par"
    /\ i \in 1 .. Len(work)
    /\ ~work[i].done
    /\ LET t == work[i]
       IN  /\ work' = [work EXCEPT ![i] =
                 Task(t.lo, t.hi, t.path, TRUE,
                      LeafSum(points, batch_size, t.lo, t.hi, zero))]
           /\ counted' = Count(counted, LeafPairs(Len(points), batch_size, t.lo, t.hi))
    /\ UNCHANGED otherThanInteg
    /\ UNCHANGED <<points, batch_size, src, samples, filled, ipc, parallel, rest, ri,
                   result>>

\* two finished halves of one task are added
ParCombine(i) ==
    /\ ipc = "par"
    /\ i \in 1 .. (Len(work) - 1)
    /\ work[i].done /\ work[i + 1].done
    /\ LET l == work[i]
           r == work[i + 1]
           d == Len(l.path)
       IN  /\ d >= 1 /\ Len(r.path) = d
           /\ SubSeq(l.path, 1, d - 1) = SubSeq(r.path, 1, d - 1)
           /\ l.path[d] = 0 /\ r.path[d] = 1
           /\ work' = SubSeq(work, 1, i - 1)
                      \o <<Task(l.lo, r.hi, SubSeq(l.path, 1, d - 1), TRUE,
                                CAdd(l.val, r.val))>>
                      \o SubSeq(work, i + 2, Len(work))
    /\ UNCHANGED otherThanInteg
    /\ UNCHANGED <<points, batch_size, src, samples, filled, ipc, parallel, rest, ri,
                   result, counted>>

\* .sum() returns
ParDone ==
    /\ ipc = "par"
    /\ Len(work) = 1 /\ work[1].done
    /\ parallel' = work[1].val
    /\ rest' = zero
    /\ ri' = 0
    /\ ipc' = "rest"
    /\ UNCHANGED otherThanInteg
    /\ UNCHANGED <<points, batch_size, src, samples, filled, work, result, counted>>

\* one step of for i in 0..batches.len() - 1
RestStep ==
    /\ ipc = "rest"
    /\ ri < RestSteps(NumBatches(Len(points), batch_size))
    /\ rest' = CAdd(rest, RestPanel(points, batch_size, ri + 1))
    /\ counted' = Count(counted, <<RestPair(Len(points), batch_size, ri + 1)>>)
    /\ ri' = ri + 1
    /\ UNCHANGED otherThanInteg
    /\ UNCHANGED <<points, batch_size, src, samples, filled, ipc, work, parallel,
                   result>>

\* return parallel + rest
IntegrateReturn ==
    /\ ipc = "rest"
    /\ ri >= RestSteps(NumBatches(Len(points), batch_size))
    /\ result' = CAdd(parallel, rest)
    /\ ipc' = "done"
    /\ UNCHANGED otherThanInteg
    /\ UNCHANGED <<points, batch_size, src, samples, filled, work, parallel, rest, ri,
                   counted>>

NextInteg ==
    \/ \E i \in 0 .. (MaxN - 1) : MapItem(i)
    \/ Collect
    \/ IntegrateStart
    \/ \E i \in 1 .. MaxPoints : ParSplit(i) \/ ParFold(i) \/ ParCombine(i)
    \/ ParDone
    \/ RestStep
    \/ IntegrateReturn

\* ------------------------------------------------------ newtons_method.rs
\* the functions the root finders are given: x |-> (x - r1) * (x - r2) * ...,
\* the empty product being the constant 1.0
RECURSIVE PolyFrom(_, _, _, _)
PolyFrom(roots, x, j, acc) ==
    IF j > Len(roots) THEN acc
    ELSE PolyFrom(roots, x, j + 1, FMul(acc, FSub(x, roots[j])))
PolyEval(roots, x) ==
    IF roots = <<>> THEN FromInt(1) ELSE PolyFrom(roots, x, 2, FSub(x, roots[1]))

\* (x - z).powi(n) for the multiplicities 1 and 2
powi(d, n) == IF n = 2 THEN FMul(d, d) ELSE d

RECURSIVE DivisorFrom(_, _, _, _)
\* .fold(1.0, |acc, (n, z)| acc * (x - z).powi(*n))
DivisorFrom(pz, x, j, acc) ==
    IF j > Len(pz) THEN acc
    ELSE DivisorFrom(pz, x, j + 1, FMul(acc, powi(FSub(x, pz[j][2]), pz[j][1])))

\* a divisor that is used as the fold left it
NonZero_AsFolded(divisor, precision) == divisor

\* let divisor = if divisor == 0.0 { divisor + self.precision } else { divisor }
NonZero(divisor, precision) ==
    IF FEq(divisor, 0) THEN FAdd(divisor, precision) ELSE divisor

RECURSIVE ISqrtFrom(_, _)
ISqrtFrom(n, k) == IF (k + 1) * (k + 1) > n THEN k ELSE ISqrtFrom(n, k + 1)
\* the integer nearest to the square root of n
ISqrtRound(n) ==
    LET k == ISqrtFrom(n, 0) IN IF n - k * k > (k + 1) * (k + 1) - n THEN k + 1 ELSE k

\* f64::epsilon().sqrt(), epsilon being 2^-(MantBits - 1)
Dx == ISqrtRound(2 ^ (2 * FracBits + 1 - MantBits))

RECURSIVE ISqrtBits(_, _, _)
\* the integer part of the square root of n < 2^30, bit by bit
ISqrtBits(n, bit, acc) ==
    IF bit = 0 THEN acc
    ELSE ISqrtBits(n, bit \div 2, IF (acc + bit) * (acc + bit) <= n THEN acc + bit ELSE acc)

\* f64::sqrt: the root to 1/16 of a unit, rounded to a float
FSqrt(a) ==
    IF IsNaN(a) \/ a < 0 THEN NaN
    ELSE IF a = PInf THEN PInf
    ELSE RoundToFloat(ISqrtBits(a * Scale * 256, 2 ^ 14, 0), 16)

\* a combination of m1, m2 and m3 without their weights
Stencil_Unweighted(m1, m2, m3) == FDiv(FAdd(FSub(m1, m2), m3), FMul(Dx, FromInt(10)))

\* ((fifteen_m1 - six_m2) + m3) / ten_dx1
Stencil(m1, m2, m3) ==
    FDiv(FAdd(FSub(FMul(m1, FromInt(15)), FMul(m2, FromInt(6))), m3),
         FMul(Dx, FromInt(10)))

\* (potential(x + dx) - potential(x - dx)) / w
PotentialSlope(roots, x, dx, w) ==
    FDiv(FSub(PolyEval(roots, FAdd(x, dx)), PolyEval(roots, FSub(x, dx))), w)

\* derivative(&|t| (phase.potential)(t), x)
PotentialDerivative(roots, x) ==
    Stencil(PotentialSlope(roots, x, Dx, FromInt(2)),
            PotentialSlope(roots, x, FMul(Dx, FromInt(2)), FromInt(4)),
            PotentialSlope(roots, x, FMul(Dx, FromInt(3)), FromInt(6)))

\* (...).pow(2)
Pow2(d) == FMul(d, d)

\* validity_func: 1.0 / (2.0 * mass).sqrt() * derivative(potential, x).abs()
\*                - (potential(x) - energy).pow(2), u being potential(x)
validity_func(fd, x, u) ==
    FSub(FMul(FDiv(FromInt(1), FSqrt(FMul(FromInt(2), fd.mass))),
              FAbs(PotentialDerivative(fd.roots, x))),
         Pow2(FSub(u, fd.energy)))

\* the function a finder was given, at x, u being its polynomial at x
BaseOf(fd, x, u) ==
    IF fd.kind = "valid" THEN validity_func(fd, x, u)
    ELSE IF fd.kind = "energy" THEN FSub(fd.energy, u)
    ELSE u

\* NewtonsMethodFindNewZero::modified_func, fx being (self.f)(x)
modified_func(fx, pz, precision, x) ==
    FDiv(fx, NonZero(DivisorFrom(pz, x, 1, FromInt(1)), precision))

WithZeros(fd, x, fx) ==
    IF fd.mod THEN modified_func(fx, fd.zeros, fd.prec, x) ELSE fx

Apply(fd, x) == WithZeros(fd, x, BaseOf(fd, x, PolyEval(fd.roots, x)))

\* (func(x + dx) - func(x - dx)) / w
Slope(func, x, dx, w) ==
    FDiv(FSub(Apply(func, FAdd(x, dx)), Apply(func, FSub(x, dx))), w)

derivative(func, x) ==
    Stencil(Slope(func, x, Dx, FromInt(2)),
            Slope(func, x, FMul(Dx, FromInt(2)), FromInt(4)),
            Slope(func, x, FMul(Dx, FromInt(3)), FromInt(6)))

\* a pass that does not test the derivative
NewtonPass_NoZeroCheck(guess0, fx, deriv, precision) ==
    IF FLt(FAbs(FDiv(fx, deriv)), precision)
    THEN [kind |-> "converged", guess |-> guess0]
    ELSE [kind |-> "stepped", guess |-> FSub(guess0, FDiv(fx, deriv))]

\* one pass of the loop of newtons_method and of newtons_method_max_iters, given
\* f(guess) and derivative(f, guess): what the pass does, and the guess it leaves
NewtonPass(guess0, fx, deriv, precision) ==
    IF FEq(deriv, 0) THEN [kind |-> "zero_derivative", guess |-> guess0]
    ELSE IF FLt(FAbs(FDiv(fx, deriv)), precision)
    THEN [kind |-> "converged", guess |-> guess0]
    ELSE [kind |-> "stepped", guess |-> FSub(guess0, FDiv(fx, deriv))]

\* a range that has max_iters + 1 items
InRange_Inclusive(i, max_iters) == i <= max_iters

\* for _ in 0..max_iters: the range has an item left after i of them
InRange(i, max_iters) == i < max_iters

\* a test that takes every pair of values for a change of sign
check_sign_Always(initial, new) == TRUE

check_sign(initial, new) ==
    IF FEq(initial, new) THEN FALSE
    ELSE (FLe(initial, 0) /\ FGe(new, 0)) \/ (FGe(initial, 0) /\ FLe(new, 0))

\* (a * f(b) - b * f(a)) / (f(b) - f(a))
Secant(a, b, fa, fb) == FDiv(FSub(FMul(a, fb), FMul(b, fa)), FSub(fb, fa))

regula_falsi_c(f, a, b) == Secant(a, b, Apply(f, a), Apply(f, b))

\* f64::exp in fixed point: ExpFix(u) / ExpOne is e^(-u/Scale) for a stored u >= 0
ExpOne == 2 ^ 15
RECURSIVE TaylorFrom(_, _, _)
\* the series of e^(-1/Scale): 1 - 1/Scale + 1/(2 Scale^2) - ...
TaylorFrom(term, k, sum) ==
    IF term = 0 THEN sum
    ELSE TaylorFrom(0 - (term \div (Scale * k)), k + 1, sum + term)
RECURSIVE PowFix(_, _, _)
PowFix(base, u, acc) ==
    IF u = 0 \/ acc = 0 THEN acc ELSE PowFix(base, u - 1, (acc * base) \div ExpOne)
ExpFix(u) == PowFix(TaylorFrom(ExpOne, 1, 0), u, ExpOne)

\* f64::exp
exp(t) ==
    IF IsNaN(t) THEN NaN
    ELSE IF t = NInf THEN 0
    ELSE IF t = PInf THEN PInf
    ELSE IF t <= 0 THEN RoundToFloat(ExpFix(0 - t) * Scale, ExpOne)
    ELSE IF ExpFix(t) = 0 THEN PInf
    ELSE RoundToFloat(ExpOne * Scale, ExpFix(t))

\* -(-der * der).exp() + 1.0
Flatness(der) == FAdd(FNeg(exp(FMul(FNeg(der), der))), FromInt(1))

\* make_guess: the (x, y) of one sample position
GuessPoint(f, x) == <<x, FAbs(FDiv(Apply(f, x), Flatness(derivative(f, x))))>>

\* make_guess: the Vec of (x, y) before it is sorted
GuessPoints(f, start, end, n) ==
    [i \in 1 .. n |->
        GuessPoint(f, index_to_range(FromInt(i - 1), 0, FromInt(n), start, end))]

\* the indices that points.sort_by(sort_func) can put first: the first of the
\* smallest y (the sort is stable); any index when a y is NaN, which no order ranks
SortedFirst(pts) ==
    IF \E i \in DOMAIN pts : IsNaN(pts[i][2]) THEN DOMAIN pts
    ELSE {i \in DOMAIN pts :
            /\ \A j \in DOMAIN pts : FLe(pts[i][2], pts[j][2])
            /\ \A j \in 1 .. (i - 1) : ~FLe(pts[j][2], pts[i][2])}

\* ----------------------------------------------------------- inputs
MaxGuess == 3
MaxIters == 3
MaxGuessN == 3
Guesses == {k * (Scale \div 2) : k \in (0 - 2 * MaxGuess) .. (2 * MaxGuess)}
NRoots == {FromInt(0 - 1), FromInt(1), FromInt(2)}
NFuncs ==
    {<<>>, <<0, FromInt(2), FromInt(0 - 2)>>, <<0, 0, 0, 0>>}
        \cup {<<r>> : r \in NRoots}
        \cup {<<q[1], q[2]>> : q \in {q \in NRoots \X NRoots : q[1] <= q[2]}}
Precisions == {1, Scale \div 2}
Steps == {0 - Scale, Scale \div 2, Scale}
\* a call whose guess + step is not a float: x - 1.9375, from 1.875 in steps of 2.5
OffGridRoot == 2 * Scale - 1
OffGridGuess == 2 * Scale - 2
OffGridStep == 2 * Scale + Scale \div 2

\* the state in which one of the functions has just been called
Call(op, f, g, p, m, s, a, b, n, pc) ==
    /\ nop = op /\ nf = Fn(f) /\ guess = g /\ nprec = p /\ nmax = m /\ bstep = s
    /\ ra = a /\ rb = b /\ gn = n /\ npc = pc
    /\ iters = 0
    /\ bresult = g
    /\ rc = 0
    /\ nout = NoOut
    /\ bracket = <<0, 0>>

InitNewton ==
    /\ \/ Call("bisection_search_sign_change", <<OffGridRoot>>, OffGridGuess, 0, 0,
                OffGridStep, 0, 0, 0, "bisect")
       \/ \E f \in NFuncs :
           \/ \E g \in Guesses, p \in Precisions :
                 Call("newtons_method", f, g, p, 0, 0, 0, 0, 0, "newton")
           \/ \E g \in Guesses, p \in Precisions, m \in 0 .. MaxIters :
                 Call("newtons_method_max_iters", f, g, p, m, 0, 0, 0, 0, "bounded")
           \/ \E g \in Guesses, st \in Steps :
                 Call("bisection_search_sign_change", f, g, 0, 0, st, 0, 0, 0, "bisect")
           \/ \E a \in Guesses, b \in Guesses, p \in Precisions :
                 Call("regula_falsi_method", f, 0, p, 0, 0, a, b, 0, "regula_start")
           \/ \E g \in Guesses, st \in Steps, p \in Precisions :
                 Call("regula_falsi_bisection", f, g, p, 0, st, 0, 0, 0, "bisect")
           \/ \E a \in Guesses, b \in Guesses, n \in 0 .. MaxGuessN :
                 Call("make_guess", f, 0, 0, 0, 0, a, b, n, "make_guess")
    /\ IntegIdle
    /\ FinderIdle
    /\ WaveIdle
    /\ ZerosIdle
    /\ GroupIdle
    /\ JointIdle

\* ------------------------------------------------------- newtons_method
\* one pass of the loop
NewtonStep ==
    /\ npc = "newton"
    /\ \E pass \in {NewtonPass(guess, Apply(nf, guess), derivative(nf, guess), nprec)} :
          /\ guess' = pass.guess
          /\ npc' = IF pass.kind = "zero_derivative" THEN "panicked"
                    ELSE IF pass.kind = "converged" THEN "returned"
                    ELSE npc
          /\ nout' = IF pass.kind = "converged" THEN F64(guess) ELSE nout
    /\ iters' = IF iters < MaxIters THEN iters + 1 ELSE iters
    /\ UNCHANGED <<nop, nf, nprec, nmax, bstep, bresult, ra, rb, rc, gn, bracket>>
    /\ UNCHANGED otherThanNewton

\* --------------------------------------------- newtons_method_max_iters
\* one pass of for _ in 0..max_iters
BoundedStep ==
    /\ npc = "bounded"
    /\ InRange(iters, nmax)
    /\ iters' = iters + 1
    /\ \E pass \in {NewtonPass(guess, Apply(nf, guess), derivative(nf, guess), nprec)} :
          /\ guess' = pass.guess
          /\ npc' = IF pass.kind = "stepped" THEN npc ELSE "returned"
          /\ nout' = IF pass.kind = "zero_derivative" THEN None
                     ELSE IF pass.kind = "converged" THEN Some(guess)
                     ELSE nout
    /\ UNCHANGED <<nop, nf, nprec, nmax, bstep, bresult, ra, rb, rc, gn, bracket>>
    /\ UNCHANGED otherThanNewton

\* the range 0..max_iters is used up
BoundedExhausted ==
    /\ npc = "bounded"
    /\ ~InRange(iters, nmax)
    /\ npc' = "returned"
    /\ nout' = None
    /\ UNCHANGED <<nop, nf, nprec, nmax, guess, iters, bstep, bresult, ra, rb, rc, gn, bracket>>
    /\ UNCHANGED otherThanNewton

\* ----------------------------------------- bisection_search_sign_change
\* one test of the while condition, then the body or the return; within
\* regula_falsi_bisection the pair returned is passed on to regula_falsi_method
BisectStep ==
    /\ npc = "bisect"
    /\ IF ~check_sign(Apply(nf, guess), Apply(nf, bresult))
       THEN /\ bresult' = FAdd(bresult, bstep)
            /\ UNCHANGED <<ra, rb, npc, nout>>
       ELSE IF nop = "regula_falsi_bisection"
       THEN /\ ra' = FSub(bresult, bstep)
            /\ rb' = bresult
            /\ npc' = "regula_start"
            /\ UNCHANGED <<bresult, nout>>
       ELSE /\ npc' = "returned"
            /\ nout' = Pair(FSub(bresult, bstep), bresult)
            /\ UNCHANGED <<bresult, ra, rb>>
    /\ UNCHANGED <<nop, nf, nprec, nmax, guess, iters, bstep, rc, gn, bracket>>
    /\ UNCHANGED otherThanNewton

\* -------------------------------------------------- regula_falsi_method
\* the swap of a and b and the first c
RegulaStart ==
    /\ npc = "regula_start"
    /\ ra' = IF FGt(ra, rb) THEN rb ELSE ra
    /\ rb' = IF FGt(ra, rb) THEN ra ELSE rb
    /\ rc' = regula_falsi_c(nf, ra', rb')
    /\ bracket' = <<ra', rb'>>
    /\ npc' = "regula"
    /\ UNCHANGED <<nop, nf, nprec, nmax, guess, iters, bstep, bresult, gn, nout>>
    /\ UNCHANGED otherThanNewton

\* one test of the while condition, then the body or the return
RegulaStep ==
    /\ npc = "regula"
    /\ IF FGt(FAbs(Apply(nf, rc)), nprec)
       THEN \E b \in {regula_falsi_c(nf, ra, rb)} :
            \E a \in {regula_falsi_c(nf, ra, b)} :
                /\ rb' = b
                /\ ra' = a
                /\ rc' = regula_falsi_c(nf, a, b)
                /\ UNCHANGED <<npc, nout>>
       ELSE /\ npc' = "returned"
            /\ nout' = F64(rc)
            /\ UNCHANGED <<ra, rb, rc>>
    /\ UNCHANGED <<nop, nf, nprec, nmax, guess, iters, bstep, bresult, gn, bracket>>
    /\ UNCHANGED otherThanNewton

\* ------------------------------------------------------------ make_guess
MakeGuess ==
    /\ npc = "make_guess"
    /\ \E pts \in {GuessPoints(nf, ra, rb, gn)} :
          IF pts = <<>> THEN nout' = None
          ELSE \E i \in SortedFirst(pts) : nout' = Some(pts[i][1])
    /\ npc' = "returned"
    /\ UNCHANGED <<nop, nf, nprec, nmax, guess, iters, bstep, bresult, ra, rb, rc, gn, bracket>>
    /\ UNCHANGED otherThanNewton

NextNewton ==
    \/ NewtonStep
    \/ BoundedStep
    \/ BoundedExhausted
    \/ BisectStep
    \/ RegulaStart
    \/ RegulaStep
    \/ MakeGuess

\* ---------------------------------------------- NewtonsMethodFindNewZero
RECURSIVE newtons_method_max_iters(_, _, _, _, _)
RECURSIVE AfterPass(_, _, _, _, _)
\* what follows a pass of the for loop: a return, or the next pass
AfterPass(pass, f, precision, max_iters, i) ==
    IF pass.kind = "zero_derivative" THEN None
    ELSE IF pass.kind = "converged" THEN Some(pass.guess)
    ELSE newtons_method_max_iters(f, pass.guess, precision, max_iters, i + 1)

\* newtons_method_max_iters as one call, i passes of the loop having been made
newtons_method_max_iters(f, guess0, precision, max_iters, i) ==
    IF ~InRange(i, max_iters) THEN None
    ELSE AfterPass(NewtonPass(guess0, Apply(f, guess0), derivative(f, guess0), precision),
                   f, precision, max_iters, i)

\* a zero that is always tagged as simple
Multiplicity_AlwaysOne(f, z, precision) == 1

\* next_zero: the tag pushed with a zero z of the modified function f
Multiplicity(f, z, precision) ==
    IF FLt(FAbs(derivative(f, z)), precision) THEN 2 ELSE 1

\* a push that keeps only the zero found last
PushZero_KeepLast(pz, found, f, precision) ==
    IF found.kind = "Some" THEN <<<<Multiplicity(f, found.v, precision), found.v>>>> ELSE pz

\* if let Some(z) = zero { self.previous_zeros.push((2, z)) or push((1, z)) }, f
\* being the modified function before the push
PushZero(pz, found, f, precision) ==
    IF found.kind = "Some" THEN Append(pz, <<Multiplicity(f, found.v, precision), found.v>>)
    ELSE pz

MaxCalls == 3
MaxFinderIters == 6
FinderFuncs == NFuncs \ {<<>>}

\* NewtonsMethodFindNewZero::new
InitFinder ==
    /\ ff \in FinderFuncs
    /\ fprec \in Precisions
    /\ fmax = MaxFinderIters
    /\ previous_zeros = <<>>
    /\ calls = 0
    /\ fret = NoOut
    /\ IntegIdle
    /\ NewtonIdle
    /\ WaveIdle
    /\ ZerosIdle
    /\ GroupIdle
    /\ JointIdle

\* NewtonsMethodFindNewZero::next_zero
NextZero(g) ==
    /\ calls < MaxCalls
    /\ calls' = calls + 1
    /\ \E z \in {newtons_method_max_iters(ModFn(ff, previous_zeros, fprec), g,
                                             fprec, fmax, 0)} :
          /\ fret' = z
          /\ previous_zeros' = PushZero(previous_zeros, z,
                                         ModFn(ff, previous_zeros, fprec), fprec)
    /\ UNCHANGED <<ff, fprec, fmax>>
    /\ UNCHANGED otherThanFinder

NextFinder == \E g \in Guesses : NextZero(g)

\* ------------------------------------------------ wave_function_builder.rs
\* a range that includes its upper end
is_in_range_Closed(range, x) == FLe(range[1], x) /\ FGe(range[2], x)

is_in_range(range, x) == FLe(range[1], x) /\ FGt(range[2], x)

\* a part of the wave function: its range() and the amplitude its eval(x) returns
Part(range, amp) == [range |-> range, amp |-> amp]
PartEval(part, x) == complex(part.amp, 0)

\* what calc_psi and eval come to: a value, or the panic
Ok(v) == [ok |-> TRUE, v |-> v]
Panic == [ok |-> FALSE, v |-> <<0, 0>>]

RECURSIVE CalcPsiFrom(_, _, _)
\* for part in self.parts.as_slice(), from part j on
CalcPsiFrom(ps, x, j) ==
    IF j > Len(ps) THEN Panic
    ELSE IF is_in_range(ps[j].range, x) THEN Ok(PartEval(ps[j], x))
    ELSE CalcPsiFrom(ps, x, j + 1)

calc_psi(ps, x) == CalcPsiFrom(ps, x, 1)

\* self.scaling * psi
Scaled(sc, psi) == IF psi.ok THEN Ok(CMul(sc, psi.v)) ELSE Panic

\* impl Func<f64, Complex64> for WaveFunction
eval(ps, sc, x) == Scaled(sc, calc_psi(ps, x))

\* f64::EPSILON
Epsilon == Scale \div 2 ^ (MantBits - 1)

\* main.rs: INTEG_STEPS = 10000 and TRAPEZE_PER_THREAD = 1000, scaled down
INTEG_STEPS == 5
TRAPEZE_PER_THREAD == 2

\* approx_inf.0 * (1.0 - f64::EPSILON), approx_inf.1 * (1.0 - f64::EPSILON)
ShrunkBound(bound) == FMul(bound, FSub(FromInt(1), Epsilon))

\* evaluate_function_between(wave_func, a, b, INTEG_STEPS) mapped to |y|^2
NormSqrPoints(ps, sc, a, b) ==
    IF SameBounds(a, b) THEN <<>>
    ELSE [i \in 1 .. INTEG_STEPS |->
            Point(SamplePos(i - 1, a, b, INTEG_STEPS),
                  complex(norm_sqr(eval(ps, sc, SamplePos(i - 1, a, b, INTEG_STEPS)).v), 0))]

\* an evaluation of the samples panics
SamplesPanic(ps, a, b) ==
    /\ ~SameBounds(a, b)
    /\ \E i \in 1 .. INTEG_STEPS : ~calc_psi(ps, SamplePos(i - 1, a, b, INTEG_STEPS)).ok

\* the area renormalize_factor integrates
Area(ps, sc, inf) ==
    IntegrateSequential(NormSqrPoints(ps, sc, ShrunkBound(inf[1]), ShrunkBound(inf[2])),
                        TRAPEZE_PER_THREAD)[1]

\* a reciprocal without the test for an area of zero
OneOver_NoZeroTest(area) == FDiv(FromInt(1), area)

\* let area = if area == 0.0 { 1.0 } else { area }; 1.0 / area
OneOver(area) == FDiv(FromInt(1), IF FEq(area, 0) THEN FromInt(1) ELSE area)

renormalize_factor(ps, sc, inf) == OneOver(Area(ps, sc, inf))

\* Complex64 * f64
CScale(c, k) == <<FMul(c[1], k), FMul(c[2], k)>>

\* let view = if lower_bound.is_some() && upper_bound.is_some() { ... } else { ... }
ViewOf(lower_bound, upper_bound, inf, view_factor) ==
    IF lower_bound.kind = "Some" /\ upper_bound.kind = "Some"
    THEN <<FSub(lower_bound.v, FMul(FSub(upper_bound.v, lower_bound.v), view_factor)),
           FAdd(upper_bound.v, FMul(FSub(upper_bound.v, lower_bound.v), view_factor))>>
    ELSE <<FSub(inf[1], Dx), FAdd(inf[2], Dx)>>

\* let center = (view.0 + view.1) / 2.0
Center(v) == FDiv(FAdd(v[1], v[2]), FromInt(2))

\* a view without turning points that gets the lower half only
PureWkbParts_LowerHalf(inf, v) == <<Part(<<inf[1], Center(v)>>, FromInt(1))>>

\* the PureWkb parts with the ranges (approx_inf.0, center) and (center, approx_inf.1)
PureWkbParts(inf, v) ==
    <<Part(<<inf[1], Center(v)>>, FromInt(1)), Part(<<Center(v), inf[2]>>, FromInt(2))>>

\* [2.0 * approx_inf.0 - first.1] ++ boundaries.ts.map(|p| p.1) ++ [2.0 * approx_inf.1 - last.1]
TurningPoints(inf, bs) ==
    <<FSub(FMul(FromInt(2), inf[1]), bs[1][2])>>
        \o [j \in DOMAIN bs |-> bs[j][2]]
        \o <<FSub(FMul(FromInt(2), inf[2]), bs[Len(bs)][2])>>

\* ((boundary + previous) / 2.0, (next + boundary) / 2.0)
WkbRange(previous, boundary, next) ==
    <<FDiv(FAdd(boundary, previous), FromInt(2)), FDiv(FAdd(next, boundary), FromInt(2))>>

\* the ranges of turning_points zipped with skip(1) and skip(2)
WkbRanges(tps) == [j \in 1 .. (Len(tps) - 2) |-> WkbRange(tps[j], tps[j + 1], tps[j + 2])]

\* one ApproxPart per (wkb, range) and airy function, the j-th of value j
ApproxParts(ranges) == [j \in DOMAIN ranges |-> Part(ranges[j], FromInt(j))]

\* ----------------------------------------------------------- inputs
MaxParts == 2
MaxX == 3
RangeVals ==
    {<<FromInt(0 - 2), 0>>, <<0, FromInt(2)>>, <<FromInt(0 - 2), FromInt(2)>>,
     <<FromInt(0 - 1), FromInt(1)>>}
\* the j-th part has the constant value j, or 0
PartLists ==
    UNION {{[j \in 1 .. n |-> Part(r[j], FromInt(j * a[j]))]
              : r \in [1 .. n -> RangeVals], a \in [1 .. n -> {0, 1}]}
           : n \in 0 .. MaxParts}
ApproxInfs == {<<FromInt(0 - 2), FromInt(2)>>, <<FromInt(0 - 1), FromInt(1)>>}
ScaleVals == {complex(FromInt(1), 0), complex(FromInt(2), 0), complex(FromInt(3), 0)}
ScalingTypes ==
    {[kind |-> "None", s |-> complex(0, 0)]}
        \cup [kind : {"Mul", "Renormalize"}, s : ScaleVals]
XVals == {FromInt(k) : k \in (0 - MaxX) .. MaxX} \cup {NaN}

\* the outer bounds, the scalings, the bounds newtons_method_max_iters finds, the
\* view factor and the turning points of the calls that assemble the parts
AssembleInfs ==
    {<<FromInt(0 - 2), FromInt(2)>>, <<FromInt(1), FromInt(3)>>,
     <<FromInt(0 - 3), FromInt(0 - 1)>>, <<FromInt(0 - 2), 0>>}
AssembleScalings ==
    {[kind |-> "None", s |-> complex(0, 0)], [kind |-> "Renormalize", s |-> complex(FromInt(1), 0)]}
FoundBounds ==
    {<<None, None>>, <<Some(FromInt(0 - 1)), Some(FromInt(1))>>, <<Some(0), Some(FromInt(2))>>}
VIEW_FACTOR == Scale \div 2
TpVals ==
    {0 - (2 * Scale + Scale \div 2), 0 - (Scale + Scale \div 8), 0 - Scale \div 2,
     Scale \div 2, Scale + Scale \div 8, 2 * Scale + Scale \div 2}
\* a group ((t1, t2), turning_point) around a turning point
GroupAround(tp) == <<<<FSub(tp, Scale \div 4), FAdd(tp, Scale \div 4)>>, tp>>
BoundaryLists ==
    {<<>>} \cup {<<GroupAround(t)>> : t \in TpVals}
        \cup {<<GroupAround(q[1]), GroupAround(q[2])>> :
                 q \in {q \in TpVals \X TpVals : q[1] < q[2]}}

\* WaveFunction::new is called: with the parts given as they are, or before they
\* are assembled
InitWave ==
    /\ \/ /\ parts \in PartLists
          /\ approx_inf \in ApproxInfs
          /\ scaling_type \in ScalingTypes
          /\ wpc = "new"
       \/ /\ parts = <<>>
          /\ approx_inf \in AssembleInfs
          /\ scaling_type \in AssembleScalings
          /\ wpc = "assemble"
    /\ wview = <<0, 0>>
    /\ boundaries = <<>>
    /\ airy_ranges = <<>>
    /\ wkb_ranges = <<>>
    /\ assembly = "none"
    /\ scaling = complex(0, 0)
    /\ reported = FALSE
    /\ wcall = NoCall
    /\ IntegIdle
    /\ NewtonIdle
    /\ FinderIdle
    /\ ZerosIdle
    /\ GroupIdle
    /\ JointIdle

\* WaveFunction::new up to match scaling: the view from the bounds found, and the
\* parts and ranges from the turning points AiryWaveFunction::new returned
Assemble ==
    /\ wpc = "assemble"
    /\ \E found \in FoundBounds, bs \in BoundaryLists :
          /\ wview' = ViewOf(found[1], found[2], approx_inf, VIEW_FACTOR)
          /\ boundaries' = bs
          /\ IF Len(bs) = 0
             THEN /\ parts' = PureWkbParts(approx_inf, wview')
                  /\ airy_ranges' = <<>>
                  /\ wkb_ranges' = [j \in DOMAIN parts' |-> parts'[j].range]
                  /\ assembly' = "pure_wkb"
             ELSE /\ wkb_ranges' = WkbRanges(TurningPoints(approx_inf, bs))
                  /\ airy_ranges' = [j \in DOMAIN bs |-> bs[j][1]]
                  /\ parts' = ApproxParts(wkb_ranges')
                  /\ assembly' = "approx"
    /\ wpc' = "new"
    /\ UNCHANGED <<approx_inf, scaling_type, scaling, reported, wcall>>
    /\ UNCHANGED otherThanWave

\* WaveFunction::new: match scaling
New ==
    /\ wpc = "new"
    /\ IF scaling_type.kind = "None"
       THEN /\ scaling' = complex(FromInt(1), 0)
            /\ wpc' = "built"
            /\ UNCHANGED reported
       ELSE IF scaling_type.kind = "Mul"
       THEN /\ scaling' = scaling_type.s
            /\ wpc' = "built"
            /\ UNCHANGED reported
       ELSE IF SamplesPanic(parts, ShrunkBound(approx_inf[1]), ShrunkBound(approx_inf[2]))
       THEN /\ wpc' = "panicked"
            /\ UNCHANGED <<scaling, reported>>
       ELSE /\ scaling' = CScale(scaling_type.s,
                                 renormalize_factor(parts, scaling_type.s, approx_inf))
            /\ reported' = FEq(Area(parts, scaling_type.s, approx_inf), 0)
            /\ wpc' = "built"
    /\ UNCHANGED <<parts, approx_inf, scaling_type, wcall, assembled>>
    /\ UNCHANGED otherThanWave

\* a call of WaveFunction::calc_psi
CalcPsi(x) ==
    /\ wpc = "built"
    /\ \E psi \in {calc_psi(parts, x)} :
          /\ wcall' = [op |-> "calc_psi", x |-> x, ok |-> psi.ok, v |-> psi.v]
          /\ wpc' = IF psi.ok THEN wpc ELSE "panicked"
    /\ UNCHANGED <<parts, approx_inf, scaling_type, scaling, reported, assembled>>
    /\ UNCHANGED otherThanWave

\* a call of WaveFunction::eval
EvalAt(x) ==
    /\ wpc = "built"
    /\ \E y \in {eval(parts, scaling, x)} :
          /\ wcall' = [op |-> "eval", x |-> x, ok |-> y.ok, v |-> y.v]
          /\ wpc' = IF y.ok THEN wpc ELSE "panicked"
    /\ UNCHANGED <<parts, approx_inf, scaling_type, scaling, reported, assembled>>
    /\ UNCHANGED otherThanWave

NextWave ==
    \/ Assemble
    \/ New
    \/ \E x \in XVals : CalcPsi(x)
    \/ \E x \in XVals : EvalAt(x)

\* ------------------------------------------------------- turning_points.rs
\* ACCURACY = 1e-9, MAX_TURNING_POINTS = 256, the n = 1000 of make_guess and the
\* max_iters = 1e4 of the finder, scaled down
ACCURACY == 1
MAX_TURNING_POINTS == 3
GUESS_N == 3
ZEROS_MAX_ITERS == 4

\* .filter(|x| **x >= view.0 && **x <= view.1)
InView_Closed(x, v) == FGe(x, v[1]) /\ FLe(x, v[2])

\* .filter(|x| **x > view.0 && **x < view.1)
InView(x, v) == FGt(x, v[1]) /\ FLt(x, v[2])

\* let view = if view.0 < view.1 { view } else { (view.1, view.0) }
OrderedView(v) == IF FLt(v[1], v[2]) THEN v ELSE <<v[2], v[1]>>

RECURSIVE FilterFrom(_, _, _, _)
\* get_previous_zeros().iter().filter(...).collect()
FilterFrom(pz, v, j, acc) ==
    IF j > Len(pz) THEN acc
    ELSE FilterFrom(pz, v, j + 1, IF InView(pz[j][2], v) THEN Append(acc, pz[j][2]) ELSE acc)

\* a collect that waits for one task only
AllDone_AnyDone(tasks) == \E i \in DOMAIN tasks : tasks[i].st = "done"

\* .collect(): every task of the parallel map is over
AllDone(tasks) == \A i \in DOMAIN tasks : tasks[i].st = "done"

\* the position the i-th task of make_guess maps its index to
GuessPos(i) == index_to_range(FromInt(i - 1), 0, FromInt(GUESS_N), view[1], view[2])

\* ----------------------------------------------------------- inputs
Masses == {Scale \div 2}
Energies == {0, FromInt(1)}
Potentials == {<<0>>, <<0, 0>>}
Phases == {Phase(e, m, u) : e \in Energies, m \in Masses, u \in Potentials}
Views ==
    {<<FromInt(0 - 2), FromInt(2)>>, <<FromInt(2), FromInt(0 - 2)>>,
     <<FromInt(0 - 1), FromInt(2)>>, <<FromInt(1), FromInt(1)>>}

\* find_zeros is called
InitZeros ==
    /\ phase \in Phases
    /\ view \in Views
    /\ zeros = [precision |-> ACCURACY, max_iters |-> ZEROS_MAX_ITERS, previous_zeros |-> <<>>]
    /\ attempt = 0
    /\ gtasks = <<>>
    /\ gpoints = <<>>
    /\ zguess = None
    /\ zpc = "loop"
    /\ unique_zeros = <<>>
    /\ IntegIdle
    /\ NewtonIdle
    /\ FinderIdle
    /\ WaveIdle
    /\ GroupIdle
    /\ JointIdle

\* an iteration of the for_each begins: make_guess starts its parallel map
GuessStart ==
    /\ zpc = "loop"
    /\ attempt < MAX_TURNING_POINTS
    /\ gtasks' = [i \in 1 .. GUESS_N |-> [st |-> "todo", seen |-> <<>>]]
    /\ gpoints' = [i \in 1 .. GUESS_N |-> <<0, NaN>>]
    /\ zpc' = "make_guess"
    /\ UNCHANGED <<phase, view, zeros, attempt, zguess, unique_zeros>>
    /\ UNCHANGED otherThanZeros

\* a worker takes the i-th item: the closure borrows zeros
GuessTaskBegin(i) ==
    /\ i \in DOMAIN gtasks
    /\ gtasks[i].st = "todo"
    /\ gtasks' = [gtasks EXCEPT ![i] = [st |-> "running", seen |-> zeros.previous_zeros]]
    /\ UNCHANGED <<phase, view, zeros, attempt, gpoints, zguess, zpc, unique_zeros>>
    /\ UNCHANGED otherThanZeros

\* the worker evaluates the modified function and its derivative at the position
GuessTaskEnd(i) ==
    /\ i \in DOMAIN gtasks
    /\ gtasks[i].st = "running"
    /\ gpoints' = [gpoints EXCEPT ![i] =
                      GuessPoint(ModValidFn(phase, zeros.previous_zeros, zeros.precision),
                                 GuessPos(i))]
    /\ gtasks' = [gtasks EXCEPT ![i].st = "done"]
    /\ UNCHANGED <<phase, view, zeros, attempt, zguess, zpc, unique_zeros>>
    /\ UNCHANGED otherThanZeros

\* collect, sort_by, points.get(0): make_guess returns
GuessReturn ==
    /\ zpc = "make_guess"
    /\ AllDone(gtasks)
    /\ \E k \in SortedFirst(gpoints) : zguess' = Some(gpoints[k][1])
    /\ zpc' = "next_zero"
    /\ UNCHANGED <<phase, view, zeros, attempt, gtasks, gpoints, unique_zeros>>
    /\ UNCHANGED otherThanZeros

\* guess.map(|g| zeros.next_zero(g)), which ends the iteration
ZerosNextZero ==
    /\ zpc = "next_zero"
    /\ \E z \in {newtons_method_max_iters(
                    ModValidFn(phase, zeros.previous_zeros, zeros.precision),
                    zguess.v, zeros.precision, zeros.max_iters, 0)} :
          zeros' = [zeros EXCEPT !.previous_zeros =
                      IF z.kind = "Some"
                      THEN Append(@, <<Multiplicity(
                                         ModValidFn(phase, zeros.previous_zeros, zeros.precision),
                                         z.v, zeros.precision), z.v>>)
                      ELSE @]
    /\ attempt' = attempt + 1
    /\ zpc' = "loop"
    /\ UNCHANGED <<phase, view, gtasks, gpoints, zguess, unique_zeros>>
    /\ UNCHANGED otherThanZeros

\* the iterations are over: the view is ordered, the zeros are filtered
ZerosReturn ==
    /\ zpc = "loop"
    /\ attempt >= MAX_TURNING_POINTS
    /\ unique_zeros' = FilterFrom(zeros.previous_zeros, OrderedView(view), 1, <<>>)
    /\ zpc' = "returned"
    /\ UNCHANGED <<phase, view, zeros, attempt, gtasks, gpoints, zguess>>
    /\ UNCHANGED otherThanZeros

NextZeros ==
    \/ GuessStart
    \/ \E i \in 1 .. GUESS_N : GuessTaskBegin(i)
    \/ \E i \in 1 .. GUESS_N : GuessTaskEnd(i)
    \/ GuessReturn
    \/ ZerosNextZero
    \/ ZerosReturn

\* ---------------------------------------------- turning_points.rs: group_ts
\* num::signum of a derivative: 1.0 or -1.0 by the sign, the sign bit deciding for
\* a zero, NaN for NaN
signum(d, sign_of_zero) ==
    IF IsNaN(d) THEN NaN
    ELSE IF d > 0 THEN FromInt(1)
    ELSE IF d < 0 THEN FromInt(0 - 1)
    ELSE sign_of_zero

\* ACCURACY.sqrt()
SqrtAccuracy == FSqrt(ACCURACY)

\* the precision 1e-7 of the turning point, scaled down
TP_PRECISION == 2

RECURSIVE InsertSorted(_, _)
\* zeros.sort_by(cmp_f64), a stable sort into ascending order
InsertSorted(sorted, z) ==
    IF sorted = <<>> THEN <<z>>
    ELSE IF FLe(sorted[Len(sorted)], z) THEN Append(sorted, z)
    ELSE Append(InsertSorted(SubSeq(sorted, 1, Len(sorted) - 1), z), sorted[Len(sorted)])
RECURSIVE SortFrom(_, _, _)
SortFrom(zs, j, acc) ==
    IF j > Len(zs) THEN acc ELSE SortFrom(zs, j + 1, InsertSorted(acc, zs[j]))

\* a test of the count that passes every count
EvenCount_Always(n) == TRUE

\* assert_eq!(derivatives.len() % 2, 0)
EvenCount(n) == n % 2 = 0

\* a test of the signs that looks at the left zero only
SignPattern_LeftOnly(t1_deriv, t2_deriv) == FGt(t1_deriv, 0)

\* assert!(t1_deriv > 0.0); assert!(t2_deriv < 0.0)
SignPattern(t1_deriv, t2_deriv) == FGt(t1_deriv, 0) /\ FLt(t2_deriv, 0)

\* validity_func(phase.clone())
Valid == ValidFn(ts_phase)
\* signum(derivative(&valid, x))
SignAt(x) == signum(derivative(Valid, x), zero_sign)

\* ----------------------------------------------------------- inputs
MaxZeros == 2
ZeroVals == {FromInt(0 - 2), FromInt(0 - 1), 0, FromInt(1), FromInt(2)}
ZeroLists == UNION {[1 .. n -> ZeroVals] : n \in 0 .. MaxZeros}
\* the double well (x^2 - 1)^2 with an energy above its barrier
DoubleWell == Phase(FromInt(1) + Scale \div 2, Scale \div 2, <<FromInt(0 - 1), FromInt(0 - 1), FromInt(1), FromInt(1)>>)
\* zeros of the validity function of the double well at x > 0: the floats next to
\* its changes of sign, 0.0625, 0.6875, 1.1875 and 1.8125
WellZeroLists == {<<1, 11>>, <<19, 29>>, <<1, 11, 19, 29>>}

\* group_ts is called
InitGroup ==
    /\ \/ ts_phase \in Phases /\ ts_zeros \in ZeroLists
       \/ ts_phase = DoubleWell /\ ts_zeros \in WellZeroLists
    /\ zero_sign \in {FromInt(1), FromInt(0 - 1)}
    /\ derivatives = <<>>
    /\ groups = <<>>
    /\ ts_guess = 0
    /\ new_deriv = 0
    /\ missing_t = 0
    /\ ts_i = 0
    /\ frame = NoFrame
    /\ tpc = "start"
    /\ IntegIdle
    /\ NewtonIdle
    /\ FinderIdle
    /\ WaveIdle
    /\ ZerosIdle
    /\ JointIdle

\* zeros.sort_by(cmp_f64); derivatives = the (sign of the derivative, zero) pairs
GroupStart ==
    /\ tpc = "start"
    /\ \E sorted \in {SortFrom(ts_zeros, 1, <<>>)} :
          derivatives' = [j \in DOMAIN sorted |-> <<SignAt(sorted[j]), sorted[j]>>]
    /\ tpc' = "front"
    /\ UNCHANGED <<ts_phase, ts_zeros, zero_sign, groups, ts_guess, new_deriv, missing_t, ts_i,
                   frame>>
    /\ UNCHANGED otherThanGroup

\* if let Some((deriv, z)) = derivatives.first() { if *deriv < 0.0 { ... } }
Front ==
    /\ tpc = "front"
    /\ IF derivatives # <<>> /\ FLt(derivatives[1][1], 0)
       THEN /\ ts_guess' = FSub(derivatives[1][2], SqrtAccuracy)
            /\ new_deriv' = derivatives[1][1]
            /\ missing_t' = derivatives[1][2]
            /\ tpc' = "front_loop"
       ELSE /\ tpc' = "back"
            /\ UNCHANGED <<ts_guess, new_deriv, missing_t>>
    /\ UNCHANGED <<ts_phase, ts_zeros, zero_sign, derivatives, groups, ts_i, frame>>
    /\ UNCHANGED otherThanGroup

\* the locals of bisection_search_sign_change(f, initial_guess, step) as it starts
BisectFrame(initial_guess, step) ==
    [fn |-> "bisect", guess |-> initial_guess, step |-> step, result |-> initial_guess,
     a |-> 0, b |-> 0, c |-> 0]

\* the locals of regula_falsi_method(f, a, b, precision) before its loop
RegulaFrame(a, b) ==
    [fn |-> "regula", guess |-> 0, step |-> 0, result |-> 0, a |-> a, b |-> b,
     c |-> regula_falsi_c(Valid, a, b)]

\* the locals of newtons_method(f, guess, precision)
NewtonFrame(guess0) ==
    [fn |-> "newton", guess |-> guess0, step |-> 0, result |-> 0, a |-> 0, b |-> 0, c |-> 0]

\* while new_deriv < 0.0 { missing_t = regula_falsi_bisection(...) ... }, up to the
\* call; derivatives.insert(0, ...) after the loop
FrontLoop ==
    /\ tpc = "front_loop"
    /\ IF FLt(new_deriv, 0)
       THEN /\ frame' = BisectFrame(ts_guess, FNeg(SqrtAccuracy))
            /\ tpc' = "front_call"
            /\ UNCHANGED derivatives
       ELSE /\ derivatives' = <<<<SignAt(missing_t), missing_t>>>> \o derivatives
            /\ tpc' = "back"
            /\ UNCHANGED frame
    /\ UNCHANGED <<ts_phase, ts_zeros, zero_sign, groups, ts_guess, new_deriv, missing_t, ts_i>>
    /\ UNCHANGED otherThanGroup

\* if let Some((deriv, z)) = derivatives.last() { if *deriv > 0.0 { ... } }
Back ==
    /\ tpc = "back"
    /\ IF derivatives # <<>> /\ FGt(derivatives[Len(derivatives)][1], 0)
       THEN /\ ts_guess' = FAdd(derivatives[Len(derivatives)][2], SqrtAccuracy)
            /\ new_deriv' = derivatives[Len(derivatives)][1]
            /\ missing_t' = derivatives[Len(derivatives)][2]
            /\ tpc' = "back_loop"
       ELSE /\ tpc' = "assert_even"
            /\ UNCHANGED <<ts_guess, new_deriv, missing_t>>
    /\ UNCHANGED <<ts_phase, ts_zeros, zero_sign, derivatives, groups, ts_i, frame>>
    /\ UNCHANGED otherThanGroup

\* while new_deriv > 0.0 { missing_t = regula_falsi_bisection(...) ... }, up to the
\* call; derivatives.push(...) after the loop
BackLoop ==
    /\ tpc = "back_loop"
    /\ IF FGt(new_deriv, 0)
       THEN /\ frame' = BisectFrame(ts_guess, SqrtAccuracy)
            /\ tpc' = "back_call"
            /\ UNCHANGED derivatives
       ELSE /\ derivatives' = Append(derivatives, <<SignAt(missing_t), missing_t>>)
            /\ tpc' = "assert_even"
            /\ UNCHANGED frame
    /\ UNCHANGED <<ts_phase, ts_zeros, zero_sign, groups, ts_guess, new_deriv, missing_t, ts_i>>
    /\ UNCHANGED otherThanGroup

\* regula_falsi_bisection: one test of the while condition of
\* bisection_search_sign_change, then its body, or its return and the start of
\* regula_falsi_method on (result - step, result), a and b swapped if a > b
CallBisect ==
    /\ tpc \in {"front_call", "back_call"}
    /\ frame.fn = "bisect"
    /\ IF ~check_sign(Apply(Valid, frame.guess), Apply(Valid, frame.result))
       THEN frame' = [frame EXCEPT !.result = FAdd(frame.result, frame.step)]
       ELSE \E a \in {FSub(frame.result, frame.step)} :
               frame' = IF FGt(a, frame.result) THEN RegulaFrame(frame.result, a)
                        ELSE RegulaFrame(a, frame.result)
    /\ UNCHANGED <<ts_phase, ts_zeros, zero_sign, derivatives, groups, ts_guess, new_deriv,
                   missing_t, ts_i, tpc>>
    /\ UNCHANGED otherThanGroup

\* regula_falsi_method: one test of the while condition, then the body, or the
\* return into the loop of group_ts and the rest of that loop's body
CallRegula ==
    /\ tpc \in {"front_call", "back_call"}
    /\ frame.fn = "regula"
    /\ IF FGt(FAbs(Apply(Valid, frame.c)), ACCURACY)
       THEN /\ \E b \in {regula_falsi_c(Valid, frame.a, frame.b)} :
                  frame' = RegulaFrame(regula_falsi_c(Valid, frame.a, b), b)
            /\ UNCHANGED <<missing_t, new_deriv, ts_guess, tpc>>
       ELSE /\ missing_t' = frame.c
            /\ new_deriv' = SignAt(frame.c)
            /\ ts_guess' = IF tpc = "front_call" THEN FSub(ts_guess, SqrtAccuracy)
                           ELSE FAdd(ts_guess, SqrtAccuracy)
            /\ tpc' = IF tpc = "front_call" THEN "front_loop" ELSE "back_loop"
            /\ frame' = NoFrame
    /\ UNCHANGED <<ts_phase, ts_zeros, zero_sign, derivatives, groups, ts_i>>
    /\ UNCHANGED otherThanGroup

\* assert_eq!(derivatives.len() % 2, 0)
AssertEven ==
    /\ tpc = "assert_even"
    /\ IF EvenCount(Len(derivatives))
       THEN tpc' = "pair" /\ ts_i' = 1
       ELSE tpc' = "panicked" /\ UNCHANGED ts_i
    /\ UNCHANGED <<ts_phase, ts_zeros, zero_sign, derivatives, groups, ts_guess, new_deriv,
                   missing_t, frame>>
    /\ UNCHANGED otherThanGroup

\* for i in (0..derivatives.len()).step_by(2) { ... } up to the call of
\* newtons_method, and the return after the loop
PairStep ==
    /\ tpc = "pair"
    /\ IF ts_i > Len(derivatives)
       THEN tpc' = "returned" /\ UNCHANGED frame
       ELSE IF ts_i + 1 > Len(derivatives)
       THEN tpc' = "panicked" /\ UNCHANGED frame
       ELSE IF ~SignPattern(derivatives[ts_i][1], derivatives[ts_i + 1][1])
       THEN tpc' = "panicked" /\ UNCHANGED frame
       ELSE /\ frame' = NewtonFrame(FDiv(FAdd(derivatives[ts_i][2], derivatives[ts_i + 1][2]),
                                         FromInt(2)))
            /\ tpc' = "pair_call"
    /\ UNCHANGED <<ts_phase, ts_zeros, zero_sign, derivatives, groups, ts_guess, new_deriv,
                   missing_t, ts_i>>
    /\ UNCHANGED otherThanGroup

\* one pass of the loop of newtons_method(&|x| phase.energy - potential(x), ..., 1e-7),
\* and groups.push(((t1, t2), turning_point)) once it returns
CallNewton ==
    /\ tpc = "pair_call"
    /\ \E pass \in {NewtonPass(frame.guess, Apply(EnergyFn(ts_phase), frame.guess),
                                derivative(EnergyFn(ts_phase), frame.guess), TP_PRECISION)} :
          IF pass.kind = "zero_derivative"
          THEN tpc' = "panicked" /\ UNCHANGED <<groups, ts_i, frame>>
          ELSE IF pass.kind = "converged"
          THEN /\ groups' = Append(groups, <<<<derivatives[ts_i][2], derivatives[ts_i + 1][2]>>,
                                             frame.guess>>)
               /\ ts_i' = ts_i + 2
               /\ tpc' = "pair"
               /\ frame' = NoFrame
          ELSE /\ frame' = NewtonFrame(pass.guess)
               /\ UNCHANGED <<groups, ts_i, tpc>>
    /\ UNCHANGED <<ts_phase, ts_zeros, zero_sign, derivatives, ts_guess, new_deriv, missing_t>>
    /\ UNCHANGED otherThanGroup

NextGroup ==
    \/ GroupStart
    \/ Front
    \/ FrontLoop
    \/ Back
    \/ BackLoop
    \/ CallBisect
    \/ CallRegula
    \/ AssertEven
    \/ PairStep
    \/ CallNewton

\* ------------------------------- wave_function_builder.rs: Joint, ApproxPart
\* f64::consts::PI
PI == RoundToFloat(355 * Scale, 113)

\* the fixed point in which the sine series is summed
SinOne == 2 ^ 12
SinPi == (355 * SinOne) \div 113

RECURSIVE SinFrom(_, _, _, _, _)
\* w - w^3/3! + w^5/5! - ... from the term of magnitude mag and degree k on
SinFrom(mag, w, k, sign, sum) ==
    IF mag = 0 THEN sum
    ELSE SinFrom((((mag * w) \div SinOne) * w) \div (SinOne * (k + 1) * (k + 2)),
                 w, k + 2, 0 - sign, sum + sign * mag)

\* the sine of an angle in [0, pi], folded at pi/2
SinHalf(v) == SinFrom(IF 2 * v > SinPi THEN SinPi - v ELSE v,
                      IF 2 * v > SinPi THEN SinPi - v ELSE v, 1, 1, 0)

\* the sine of an angle u >= 0, reduced to one period
SinFixed(u) ==
    IF u % (2 * SinPi) > SinPi THEN 0 - SinHalf((u % (2 * SinPi)) - SinPi)
    ELSE SinHalf(u % (2 * SinPi))

\* f64::sin
FSin(a) ==
    IF ~IsFinite(a) THEN NaN
    ELSE RoundToFloat(Sign(a) * SinFixed(Abs(a) * (SinOne \div Scale)), SinOne \div Scale)

\* let chi = |x: f64| f64::sin(x * f64::consts::PI / 2.0).powi(2);
chi(x) == powi(FSin(FDiv(FMul(x, PI), FromInt(2))), 2)

\* Complex64 - Complex64
CSub(c1, c2) == <<FSub(c1[1], c2[1]), FSub(c1[2], c2[2])>>

\* Func::eval of an AiryWaveFunction or a WkbWaveFunction
ApproximantEval(f, x) == complex(FAdd(FMul(f.slope, x), f.offset), f.im)

\* impl WaveFunctionPart for Joint: range()
JointRange(j) ==
    IF FGt(j.delta, 0) THEN <<j.cut, FAdd(j.cut, j.delta)>>
    ELSE <<FAdd(j.cut, j.delta), j.cut>>

\* the sides taken as they are stored, whatever the sign of delta
JointSides_NoSwap(j) == <<j.left, j.right>>

\* let (left, right) = if self.delta > 0.0 { (left, right) } else { (right, left) };
JointSides(j) == IF FGt(j.delta, 0) THEN <<j.left, j.right>> ELSE <<j.right, j.left>>

\* left_val + (right.eval(x) - left_val) * chi((x - self.cut) / delta)
Blend(left_val, right_val, t) == CAdd(left_val, CScale(CSub(right_val, left_val), chi(t)))

\* impl Func<f64, Complex64> for Joint: eval(x)
JointEval(j, x) ==
    Blend(ApproximantEval(JointSides(j)[1], x), ApproximantEval(JointSides(j)[2], x),
          FDiv(FSub(x, j.cut), FAbs(j.delta)))

\* main.rs: the constants of the joints
ENABLE_AIRY_JOINTS == TRUE
AIRY_TRANSITION_FRACTION == Scale \div 2

\* let delta = (airy_rc.ts.1 - airy_rc.ts.0) * AIRY_TRANSITION_FRACTION;
JoinDelta(ts) == FMul(FSub(ts[2], ts[1]), AIRY_TRANSITION_FRACTION)

\* impl Func<f64, Complex64> for ApproxPart: eval(x)
ApproxPartEval(a, w, jl, jr, x) ==
    IF is_in_range(JointRange(jl), x) /\ ENABLE_AIRY_JOINTS THEN JointEval(jl, x)
    ELSE IF is_in_range(JointRange(jr), x) /\ ENABLE_AIRY_JOINTS THEN JointEval(jr, x)
    ELSE IF is_in_range(a.ts, x) THEN ApproximantEval(a, x)
    ELSE ApproximantEval(w, x)

\* inputs: the turning points of the Airy part, the two approximants, the positions
MaxJointX == 3
AiryTs ==
    {<<FromInt(0 - 1), FromInt(1)>>, <<0, FromInt(2)>>, <<FromInt(0 - 2), FromInt(2)>>,
     <<FromInt(0 - 1), 0>>}
Airys ==
    {Approximant(FromInt(0 - 1), FromInt(1), 0, ts) : ts \in AiryTs}
    \cup {Approximant(0, Scale \div 2, FromInt(2), ts) : ts \in AiryTs}
Wkbs == {Approximant(FromInt(1), 0, 0, <<0, 0>>), Approximant(0, FromInt(2), FromInt(1), <<0, 0>>)}
JointXs == {k * (Scale \div 4) : k \in (0 - 4 * MaxJointX) .. (4 * MaxJointX)}

InitJoint ==
    /\ airy \in Airys
    /\ wkb \in Wkbs
    /\ airy_join_l = NoJoint
    /\ airy_join_r = NoJoint
    /\ jpc = "new"
    /\ jcall = NoJointCall
    /\ IntegIdle
    /\ NewtonIdle
    /\ FinderIdle
    /\ WaveIdle
    /\ ZerosIdle
    /\ GroupIdle

\* ApproxPart::new(airy, wkb, range)
ApproxPartNew ==
    /\ jpc = "new"
    /\ \E delta \in {JoinDelta(airy.ts)} :
        /\ airy_join_l' = Joint(wkb, airy, FAdd(airy.ts[1], FDiv(delta, FromInt(2))),
                                FNeg(delta))
        /\ airy_join_r' = Joint(airy, wkb, FSub(airy.ts[2], FDiv(delta, FromInt(2))), delta)
    /\ jpc' = "built"
    /\ UNCHANGED <<airy, wkb, jcall>>
    /\ UNCHANGED otherThanJoint

\* ApproxPart::eval(x)
ApproxPartEvalAt(x) ==
    /\ jpc = "built"
    /\ jcall' = [op |-> "ApproxPart::eval", joint |-> "none", x |-> x,
                 v |-> ApproxPartEval(airy, wkb, airy_join_l, airy_join_r, x)]
    /\ UNCHANGED <<airy, wkb, airy_join_l, airy_join_r, jpc>>
    /\ UNCHANGED otherThanJoint

\* Joint::eval(x) of airy_join_l
JoinLEvalAt(x) ==
    /\ jpc = "built"
    /\ jcall' = [op |-> "Joint::eval", joint |-> "airy_join_l", x |-> x,
                 v |-> JointEval(airy_join_l, x)]
    /\ UNCHANGED <<airy, wkb, airy_join_l, airy_join_r, jpc>>
    /\ UNCHANGED otherThanJoint

\* Joint::eval(x) of airy_join_r
JoinREvalAt(x) ==
    /\ jpc = "built"
    /\ jcall' = [op |-> "Joint::eval", joint |-> "airy_join_r", x |-> x,
                 v |-> JointEval(airy_join_r, x)]
    /\ UNCHANGED <<airy, wkb, airy_join_l, airy_join_r, jpc>>
    /\ UNCHANGED otherThanJoint

NextJoint ==
    \/ ApproxPartNew
    \/ \E x \in JointXs : ApproxPartEvalAt(x)
    \/ \E x \in JointXs : JoinLEvalAt(x)
    \/ \E x \in JointXs : JoinREvalAt(x)

\* --------------------------------------------------------- specifications
vars == <<integVars, newtonVars, finderVars, waveVars, zerosVars, groupVars, jointVars>>

SpecInteg == InitInteg /\ [][NextInteg]_vars

SpecNewton == InitNewton /\ [][NextNewton]_vars

SpecFinder == InitFinder /\ [][NextFinder]_vars

SpecWave == InitWave /\ [][NextWave]_vars

SpecZeros == InitZeros /\ [][NextZeros]_vars

SpecGroup == InitGroup /\ [][NextGroup]_vars

SpecJoint == InitJoint /\ [][NextJoint]_vars

\* ---------------------------------------------------------------- claims
Representable(v) == IsFinite(v) /\ Abs(v) <= MaxFinite /\ RoundToFloat(v, 1) = v

RECURSIVE SumSeq(_, _)
SumSeq(q, j) == IF j > Len(q) THEN 0 ELSE q[j] + SumSeq(q, j + 1)

\* the n-1 panels between consecutive points
Panels(pts) == [j \in 1 .. (Len(pts) - 1) |-> trapezoidal_approx(pts[j], pts[j + 1])]
\* no addition of panels can round: the absolute values add up to a mantissa
NoRounding(pts) ==
    /\ \A j \in DOMAIN Panels(pts) : IsFinite(Panels(pts)[j][1]) /\ IsFinite(Panels(pts)[j][2])
    /\ SumSeq([j \in DOMAIN Panels(pts) |-> Abs(Panels(pts)[j][1])], 1) < 2 ^ MantBits
    /\ SumSeq([j \in DOMAIN Panels(pts) |-> Abs(Panels(pts)[j][2])], 1) < 2 ^ MantBits
PanelSum(pts) ==
    complex(SumSeq([j \in DOMAIN Panels(pts) |-> Panels(pts)[j][1]], 1),
            SumSeq([j \in DOMAIN Panels(pts) |-> Panels(pts)[j][2]], 1))

C2_ZeroForShort ==
    /\ (ipc \in {"done", "panic"} /\ Len(points) < 2) => (ipc = "done" /\ result = zero)
    /\ (ipc \in {"start", "par", "rest", "done", "panic"} /\ src.used /\ src.a = src.b)
           => (points = <<>> /\ ipc \in {"start", "done"} /\ result = zero)

C2_Witness ==
    /\ ipc = "done"
    /\ src.used /\ src.a = src.b /\ src.n >= 2
    /\ result = zero

\* C3 (as claimed): for a fixed point sequence and chunk size the value returned
\* does not depend on how many workers sum the chunks: it is the value one worker
\* gets.
C3_SameForEveryWorkerCount ==
    ipc = "done" => result = IntegrateSequential(points, batch_size)

\* C4 (as claimed): for a # b and n >= 2 the n points start at a and end at b.
C4_FirstAtALastAtB ==
    (ipc \in {"start", "done"} /\ src.used /\ src.a # src.b /\ src.n >= 2)
        => /\ Len(points) = src.n
           /\ points[1].x = src.a
           /\ points[src.n].x = src.b

\* the operations of index_to_range for item i are exact
ExactAt(i, a, b, n) ==
    /\ Representable(b - a)
    /\ Representable(i * (b - a))
    /\ (i * (b - a)) % (n - 1) = 0
    /\ Representable((i * (b - a)) \div (n - 1) + a)

\* C4 (amended): for a # b and n >= 2 evaluate_function_between returns exactly n
\* points in index order however the map is scheduled, each with the value of f at
\* its position; the first is exactly at a, and the i-th is exactly at
\* a + i*(b-a)/(n-1) whenever no operation of the position rounds.
C4_SamplesInIndexOrder ==
    (ipc \in {"start", "done"} /\ src.used /\ src.a # src.b /\ src.n >= 2)
        => /\ Len(points) = src.n
           /\ points[1].x = src.a
           /\ \A i \in 0 .. (src.n - 1) :
                 /\ points[i + 1].y = Eval(src.f, points[i + 1].x)
                 /\ ExactAt(i, src.a, src.b, src.n)
                      => points[i + 1].x * (src.n - 1)
                           = src.a * (src.n - 1) + i * (src.b - src.a)

\* the test evaluate_square_func_between
C4_Witness ==
    /\ ipc = "start"
    /\ src = [used |-> TRUE, f |-> "square", a |-> FromInt(0 - 2), b |-> FromInt(2), n |-> 5]
    /\ points = <<Point(FromInt(0 - 2), complex(FromInt(4), 0)),
                  Point(FromInt(0 - 1), complex(FromInt(1), 0)),
                  Point(FromInt(0), complex(FromInt(0), 0)),
                  Point(FromInt(1), complex(FromInt(1), 0)),
                  Point(FromInt(2), complex(FromInt(4), 0))>>

\* what newtons_method and newtons_method_max_iters compute at the current guess
DerivHere == derivative(nf, guess)
StepHere == FDiv(Apply(nf, guess), DerivHere)

\* C8 (original statement): newtons_method panics as soon as the derivative is
\* exactly zero at an iterate, the initial guess included: a pass begun at such an
\* iterate ends in the panic, and the panic happens nowhere else; and a value is
\* returned only when it is the current iterate, its derivative is not zero and
\* its step f(x)/f'(x) is below precision in absolute value.
C8_PanicsOnZeroDerivative ==
    /\ [](nop = "newtons_method" =>
            /\ npc = "panicked" => FEq(DerivHere, 0)
            /\ npc = "returned" =>
                  /\ nout = F64(guess)
                  /\ ~FEq(DerivHere, 0)
                  /\ FLt(FAbs(StepHere), nprec))
    /\ [][nop = "newtons_method" /\ npc = "newton" /\ FEq(DerivHere, 0)
            => npc' = "panicked" /\ guess' = guess]_vars

\* C8 witness: the panic at an iterate reached after two passes of the loop
C8_Witness ==
    /\ nop = "newtons_method"
    /\ npc = "panicked"
    /\ iters >= 3
    /\ FEq(DerivHere, 0)

\* C9 (original statement): newtons_method_max_iters never panics, begins at most
\* max_iters passes, returns None only when the derivative is zero at the iterate
\* or the max_iters passes are used up (at once when max_iters = 0), and returns
\* Some(x) only for the iterate x whose derivative is not zero and whose step is
\* below precision.
C9_BoundedNeverPanics ==
    nop = "newtons_method_max_iters" =>
        /\ npc \in {"bounded", "returned"}
        /\ iters <= nmax
        /\ npc = "returned" =>
              /\ nout \in {None, Some(guess)}
              /\ nout = None => FEq(DerivHere, 0) \/ iters = nmax
              /\ nout = Some(guess) =>
                    /\ ~FEq(DerivHere, 0)
                    /\ FLt(FAbs(StepHere), nprec)
                    /\ iters >= 1
              /\ nmax = 0 => nout = None

\* C9 witness: None after max_iters = 3 passes, none of which met a zero derivative
C9_Witness ==
    /\ nop = "newtons_method_max_iters"
    /\ npc = "returned"
    /\ nout = None
    /\ nmax = 3
    /\ iters = 3
    /\ ~FEq(DerivHere, 0)

\* C10 (original statement): every root-finding operation other than
\* newtons_method signals that it has no result by an explicit absence: a call
\* that returns has either returned None or returned finite numbers.
C10_AbsenceInsteadOfFailure ==
    (npc = "returned" /\ nop # "newtons_method") =>
        nout = None \/ (IsFinite(nout.v) /\ IsFinite(nout.w))

\* C10 (amended statement): none of these operations panics, but only
\* newtons_method_max_iters and make_guess have an absence to return, and
\* make_guess returns it exactly when n = 0. bisection_search_sign_change returns
\* a pair, and only once check_sign holds between f(initial_guess) and f(result);
\* until then it keeps stepping, so on a function without zeros it never returns.
\* regula_falsi_method and regula_falsi_bisection return a number, the first c
\* at which |f(c)| > precision is false, be it finite, infinite or NaN.
C10_AbsenceOnlyWhereOptional ==
    /\ nop # "newtons_method" => npc # "panicked"
    /\ nop = "bisection_search_sign_change" /\ nf.roots = <<>> => npc = "bisect"
    /\ npc = "returned" =>
          /\ nop \in {"newtons_method_max_iters", "make_guess"}
                <=> nout.kind \in {"Some", "None"}
          /\ nop = "make_guess" => (nout = None <=> gn = 0)
          /\ nop = "bisection_search_sign_change" =>
                /\ nout = Pair(FSub(bresult, bstep), bresult)
                /\ check_sign(Apply(nf, guess), Apply(nf, bresult))
          /\ nop \in {"regula_falsi_method", "regula_falsi_bisection"} =>
                /\ nout = F64(rc)
                /\ ~FGt(FAbs(Apply(nf, rc)), nprec)

\* C10 witness: regula_falsi_method has returned NaN, not an absence
C10_Witness ==
    /\ nop = "regula_falsi_method"
    /\ npc = "returned"
    /\ IsNaN(nout.v)

\* the distinct roots of the polynomial of the finder
KnownRoots == {ff[j] : j \in DOMAIN ff}
\* the zeros recorded so far
Recorded == {previous_zeros[j][2] : j \in DOMAIN previous_zeros}
\* how often z is recorded
TimesRecorded(z) == Cardinality({j \in DOMAIN previous_zeros : previous_zeros[j][2] = z})
\* how often r occurs among the factors of the polynomial
FactorsAt(r) == Cardinality({j \in DOMAIN ff : ff[j] = r})

\* C5 (original statement): after k next_zero calls on a polynomial with k
\* distinct real roots, whatever the seeds, the list has exactly k entries, they
\* are the k roots, none recorded twice, and a double root carries multiplicity 2.
C5_EveryRootExactlyOnce ==
    calls = Cardinality(KnownRoots) =>
        /\ Len(previous_zeros) = Cardinality(KnownRoots)
        /\ Recorded = KnownRoots
        /\ \A j \in DOMAIN previous_zeros :
              /\ TimesRecorded(previous_zeros[j][2]) = 1
              /\ FactorsAt(previous_zeros[j][2]) = 2 => previous_zeros[j][1] = 2

\* C5 witness: two calls seeded at the same root of (x - 1)(x - 2) have recorded
\* that root twice and the other root not at all
C5_Witness ==
    /\ ff = <<FromInt(1), FromInt(2)>>
    /\ calls = 2
    /\ previous_zeros = <<<<1, FromInt(1)>>, <<1, FromInt(1)>>>>

\* the integral of |eval(x)|^2 over the outer bounds, as renormalize_factor takes it
NormOfBuilt == Area(parts, scaling, approx_inf)
\* the area under the function with the requested scale, which Renormalize divides by
AreaRequested == Area(parts, scaling_type.s, approx_inf)

\* C6 (original statement): after WaveFunction::new with Renormalize(s), whenever
\* the area of the unscaled function is not zero, the integral of |eval(x)|^2
\* over the outer bounds is 1, to within a quarter.
C6_UnitNormAfterRenormalize ==
    (wpc = "built" /\ scaling_type.kind = "Renormalize" /\ ~FEq(AreaRequested, 0)) =>
        FLe(FAbs(FSub(NormOfBuilt, FromInt(1))), Scale \div 4)

\* C6 witness: one part of amplitude 1 on [-2, 2), Renormalize(1): the area is
\* 3.75, the scale becomes 1/3.75 and the integral of |eval|^2 is below 1/2
C6_Witness ==
    /\ wpc = "built"
    /\ scaling_type = [kind |-> "Renormalize", s |-> complex(FromInt(1), 0)]
    /\ parts = <<Part(<<FromInt(0 - 2), FromInt(2)>>, FromInt(1))>>
    /\ approx_inf = <<FromInt(0 - 2), FromInt(2)>>
    /\ FGt(AreaRequested, FromInt(3))
    /\ FLt(NormOfBuilt, Scale \div 2)

\* the parts whose half-open range [lo, hi) contains the x of the last call
Hits == {j \in DOMAIN parts : FLe(parts[j].range[1], wcall.x) /\ FLt(wcall.x, parts[j].range[2])}
FirstHit == CHOOSE j \in Hits : \A k \in Hits : j <= k

\* C7 (original statement): calc_psi(x) returns the value of the first part, in
\* list order, whose half-open range [lo, hi) contains x, and panics, returning
\* nothing, exactly when no part's range contains x.
C7_FirstPartInRange ==
    wcall.op = "calc_psi" =>
        IF Hits = {}
        THEN ~wcall.ok /\ wpc = "panicked"
        ELSE wcall.ok /\ wpc = "built" /\ wcall.v = PartEval(parts[FirstHit], wcall.x)

\* C7 witness: x lies in the ranges of both parts and the first part's value is
\* returned; the upper end of the first part's range is not in it
C7_Witness ==
    /\ wcall.op = "calc_psi"
    /\ Len(parts) = 2
    /\ Hits = {1, 2}
    /\ wcall.ok
    /\ wcall.v = PartEval(parts[1], wcall.x)

\* the view as an interval, whichever way round it was given
ViewLo == IF FLe(view[1], view[2]) THEN view[1] ELSE view[2]
ViewHi == IF FLe(view[1], view[2]) THEN view[2] ELSE view[1]
StrictlyInside(x) == FLt(ViewLo, x) /\ FLt(x, ViewHi)
\* the indices of the recorded zeros that lie strictly inside the view
InsideIdx == {j \in DOMAIN zeros.previous_zeros : StrictlyInside(zeros.previous_zeros[j][2])}
\* the index of the k-th of them
RECURSIVE KthInside(_, _)
KthInside(k, from) ==
    IF from \in InsideIdx
    THEN (IF k = 1 THEN from ELSE KthInside(k - 1, from + 1))
    ELSE KthInside(k, from + 1)

\* C11: find_zeros makes exactly MAX_TURNING_POINTS attempts, each recording at
\* most one zero, and returns the recorded zeros that lie strictly inside the
\* view, in the order recorded, a reversed view being the same interval.
C11_BoundedAttemptsInsideView ==
    /\ attempt <= MAX_TURNING_POINTS
    /\ Len(zeros.previous_zeros) <= attempt
    /\ zpc # "returned" => unique_zeros = <<>>
    /\ zpc = "returned" =>
          /\ attempt = MAX_TURNING_POINTS
          /\ Len(unique_zeros) = Cardinality(InsideIdx)
          /\ \A k \in DOMAIN unique_zeros :
                unique_zeros[k] = zeros.previous_zeros[KthInside(k, 1)][2]

\* C11 witness: a reversed view (2, -2); the zero recorded in each attempt lies
\* on the endpoint 2 and is not returned
C11_Witness ==
    /\ zpc = "returned"
    /\ FGt(view[1], view[2])
    /\ Len(zeros.previous_zeros) = MAX_TURNING_POINTS
    /\ \A j \in DOMAIN zeros.previous_zeros : zeros.previous_zeros[j][2] = view[1]
    /\ unique_zeros = <<>>

\* C12 (original statement): the list find_zeros returns holds no value twice.
C12_UniqueZeros ==
    zpc = "returned" =>
        \A i, j \in DOMAIN unique_zeros : i # j => unique_zeros[i] # unique_zeros[j]

\* C12 witness: potential x, mass 1/2, energy 1, view (-1, 2): the zero 0 of the
\* validity function 1 - (x - 1)^2 is recorded in every attempt and returned
\* as often
C12_Witness ==
    /\ zpc = "returned"
    /\ phase = Phase(FromInt(1), Scale \div 2, <<0>>)
    /\ Len(unique_zeros) = MAX_TURNING_POINTS
    /\ \A i \in DOMAIN unique_zeros : unique_zeros[i] = 0

\* the tasks of make_guess that are evaluating the modified function
Running == {i \in DOMAIN gtasks : gtasks[i].st = "running"}

\* C17: while a task of make_guess is evaluating the modified function the zero
\* list is the one the task began with and find_zeros is inside make_guess; the
\* list changes only in the next_zero step of the sequential caller, after every
\* task of the iteration is over, and by one appended entry.
C17_NoWriteWhileRead ==
    /\ [](\A i \in Running : gtasks[i].seen = zeros.previous_zeros /\ zpc = "make_guess")
    /\ [][zeros' # zeros =>
            /\ Running = {}
            /\ AllDone(gtasks)
            /\ zpc = "next_zero" /\ zpc' = "loop"
            /\ \E e \in {zeros'.previous_zeros[Len(zeros'.previous_zeros)]} :
                  zeros' = [zeros EXCEPT !.previous_zeros = Append(@, e)]]_vars

\* C17 witness: two tasks are evaluating the modified function at once, over a
\* list that already holds a zero
C17_Witness ==
    /\ Cardinality(Running) >= 2
    /\ Len(zeros.previous_zeros) >= 1

\* ------------------------------------------------------------- group_ts
\* the positions of group_ts after assert_eq!(derivatives.len() % 2, 0) has passed
PastAssert == {"pair", "pair_call", "returned"}

\* C13: in group_ts, when the number of zeros is odd once the synthetic lower
\* and upper zeros have been added, the call panics and returns no group; only
\* an even count passes the assertion; and an empty zero list is returned as an
\* empty group, without a panic and without a call of a root finder.
C13_OddCountAborts ==
    /\ [](tpc \in PastAssert => Len(derivatives) % 2 = 0)
    /\ [](ts_zeros = <<>> => /\ tpc \in {"start", "front", "back", "assert_even", "pair",
                                         "returned"}
                             /\ derivatives = <<>>
                             /\ groups = <<>>)
    /\ [][tpc = "assert_even" /\ Len(derivatives) % 2 = 1
            => tpc' = "panicked" /\ groups' = <<>>]_vars
    /\ [][tpc = "panicked" => tpc' = "panicked" /\ groups' = groups]_vars

\* C13 witness: a synthetic zero has been added to the zeros given, the count
\* is odd, and the call has panicked with no group
C13_Witness ==
    /\ tpc = "panicked"
    /\ Len(derivatives) = Len(ts_zeros) + 1
    /\ Len(derivatives) % 2 = 1
    /\ groups = <<>>

\* C14: every group pushed by group_ts is a pair of neighbours of the list of
\* (sign, zero) pairs, the groups are in ascending order with left_zero <
\* right_zero, the sign kept with the left zero is that of the derivative of the
\* validity function there and is positive, the sign of the right zero is
\* negative; and a pair without this pattern of signs panics, pushing no group.
C14_PairsOfAdjacentZeros ==
    /\ [](\A k \in DOMAIN groups :
            /\ 2 * k <= Len(derivatives)
            /\ groups[k][1] = <<derivatives[2 * k - 1][2], derivatives[2 * k][2]>>
            /\ FLt(groups[k][1][1], groups[k][1][2])
            /\ derivatives[2 * k - 1][1] = SignAt(groups[k][1][1])
            /\ derivatives[2 * k][1] = SignAt(groups[k][1][2])
            /\ FGt(derivatives[2 * k - 1][1], 0)
            /\ FLt(derivatives[2 * k][1], 0)
            /\ k > 1 => FLe(groups[k - 1][1][2], groups[k][1][1]))
    /\ [][/\ tpc = "pair"
          /\ ts_i + 1 <= Len(derivatives)
          /\ ~(FGt(derivatives[ts_i][1], 0) /\ FLt(derivatives[ts_i + 1][1], 0))
          => tpc' = "panicked" /\ groups' = groups]_vars

\* C14 witness: group_ts has returned two groups
C14_Witness ==
    /\ tpc = "returned"
    /\ Len(groups) = 2

\* C15: in every ((left_zero, right_zero), turning_point) of the groups, the
\* turning point that newtons_method found from the midpoint lies strictly
\* between left_zero and right_zero.
C15_TurningPointInside ==
    \A k \in DOMAIN groups :
        /\ FLt(groups[k][1][1], groups[k][2])
        /\ FLt(groups[k][2], groups[k][1][2])

\* C15 witness: group_ts has returned the pair of zeros (0.0625, 0.6875) of the
\* double well with a turning point to the right of both
C15_Witness ==
    /\ tpc = "returned"
    /\ ts_phase = DoubleWell
    /\ Len(groups) >= 1
    /\ groups[1][1] = <<1, 11>>
    /\ FGt(groups[1][2], groups[1][1][2])

\* --------------------------------------------- bisection_search_sign_change
\* C20: bisection_search_sign_change(f, guess, step) returns (r - step, r), where
\* f(r) has crossed zero relative to f(guess), and f(r - step) and f(r) are not
\* both strictly positive nor both strictly negative.
C20_BracketsSignChange ==
    (nop = "bisection_search_sign_change" /\ npc = "returned") =>
        /\ nout = Pair(FSub(bresult, bstep), bresult)
        /\ check_sign(Apply(nf, guess), Apply(nf, bresult))
        /\ ~(FGt(Apply(nf, nout.v), 0) /\ FGt(Apply(nf, nout.w), 0))
        /\ ~(FLt(Apply(nf, nout.v), 0) /\ FLt(Apply(nf, nout.w), 0))

\* C20 witness: the call from 1.875 in steps of 2.5 on x - 1.9375 has returned
\* (2.0, 4.5), f being positive at both
C20_Witness ==
    /\ nop = "bisection_search_sign_change" /\ npc = "returned"
    /\ guess = OffGridGuess /\ bstep = OffGridStep
    /\ FLt(Apply(nf, guess), 0)
    /\ nout = Pair(2 * Scale, 4 * Scale + Scale \div 2)
    /\ FGt(Apply(nf, nout.v), 0) /\ FGt(Apply(nf, nout.w), 0)

\* ------------------------------------------------------------ derivative
RECURSIVE ProdSkip(_, _, _, _)
\* the product of the (y - r) over the roots from the i-th on, the root at skip
\* left out: an integer, in units to the power of the number of factors
ProdSkip(roots, y, skip, i) ==
    IF i > Len(roots) THEN 1
    ELSE (IF i = skip THEN 1 ELSE y - roots[i]) * ProdSkip(roots, y, skip, i + 1)

RECURSIVE DerivFrom(_, _, _)
\* the derivative of the product of the (y - r), by the product rule
DerivFrom(roots, y, j) ==
    IF j > Len(roots) THEN 0 ELSE ProdSkip(roots, y, j, 1) + DerivFrom(roots, y, j + 1)

\* func(x + k dx) - func(x - k dx) in exact arithmetic
ExactDiff(roots, x, k) ==
    ProdSkip(roots, x + k * Dx, 0, 1) - ProdSkip(roots, x - k * Dx, 0, 1)

\* the arguments for which the exact products stay within the integers of the checker
NearGuesses(x) == IsFinite(x) /\ Abs(x) <= (MaxGuess * Scale) \div 2

\* v, an exact value in units to the power n, is a whole number of units
WholeUnits(v, n) == n = 0 \/ v % Scale ^ (n - 1) = 0
\* that number of units
InUnits(v, n) == IF n = 0 THEN v * Scale ELSE v \div Scale ^ (n - 1)

\* 15 m1, 6 m2, their difference, the sum with m3 and its quotient by 10 dx are
\* all floats: the combination is computed without rounding
StencilRepresentable(m1, m2, m3) ==
    /\ IsFinite(m1) /\ IsFinite(m2) /\ IsFinite(m3)
    /\ Representable(15 * m1)
    /\ Representable(6 * m2)
    /\ Representable(15 * m1 - 6 * m2)
    /\ Representable(15 * m1 - 6 * m2 + m3)
    /\ Representable(10 * Dx)
    /\ ((15 * m1 - 6 * m2 + m3) * Scale) % (10 * Dx) = 0
    /\ Representable(((15 * m1 - 6 * m2 + m3) * Scale) \div (10 * Dx))

\* m, computed as (func(x + k dx) - func(x - k dx)) / 2k in floats, is that
\* quotient exactly, and x + k dx and x - k dx are floats
SlopeExact(roots, x, k, m) ==
    /\ FMul(Dx, FromInt(k)) = k * Dx
    /\ FAdd(x, k * Dx) = x + k * Dx
    /\ FSub(x, k * Dx) = x - k * Dx
    /\ IsFinite(m)
    /\ WholeUnits(ExactDiff(roots, x, k), Len(roots))
    /\ m * 2 * k = InUnits(ExactDiff(roots, x, k), Len(roots))

\* the statement of C19 at x for the polynomial with these roots, m1, m2, m3 and d
\* being what derivative computes
DerivativeAt(roots, x, m1, m2, m3, d) ==
    /\ StencilRepresentable(m1, m2, m3)
           => d * 10 * Dx = (15 * m1 - 6 * m2 + m3) * Scale
    /\ 45 * ExactDiff(roots, x, 1) - 9 * ExactDiff(roots, x, 2) + ExactDiff(roots, x, 3)
           = 60 * Dx * DerivFrom(roots, x, 1)
    /\ (/\ StencilRepresentable(m1, m2, m3)
        /\ SlopeExact(roots, x, 1, m1)
        /\ SlopeExact(roots, x, 2, m2)
        /\ SlopeExact(roots, x, 3, m3))
           => /\ roots # <<>> => WholeUnits(DerivFrom(roots, x, 1), Len(roots) - 1)
              /\ d = IF roots = <<>> THEN 0
                     ELSE InUnits(DerivFrom(roots, x, 1), Len(roots) - 1)

\* the slopes m1, m2, m3 of derivative for the function and the guess of the state
SlopeHere(k) == Slope(nf, guess, FMul(Dx, FromInt(k)), FromInt(2 * k))

\* C19: derivative(f, x) is (15 m1 - 6 m2 + m3) / (10 h) for its m1, m2, m3, the
\* differences of f over 2h, 4h and 6h divided by 2, 4 and 6; in exact arithmetic
\* that expression is the derivative of every polynomial of degree at most 4,
\* and derivative returns that derivative wherever it computes without rounding.
C19_DerivativeExactForPolynomials ==
    (nop \in {"newtons_method", "newtons_method_max_iters"} /\ NearGuesses(guess)) =>
        /\ Len(nf.roots) <= 4
        /\ DerivativeAt(nf.roots, guess, SlopeHere(1), SlopeHere(2), SlopeHere(3),
                        derivative(nf, guess))

\* C19 witness: after a pass of newtons_method on a polynomial of degree 2 the
\* guess is a point where derivative computes without rounding, and the slope
\* there is not zero
C19_Witness ==
    /\ nop = "newtons_method" /\ iters >= 1
    /\ NearGuesses(guess)
    /\ Len(nf.roots) = 2
    /\ StencilRepresentable(SlopeHere(1), SlopeHere(2), SlopeHere(3))
    /\ SlopeExact(nf.roots, guess, 1, SlopeHere(1))
    /\ SlopeExact(nf.roots, guess, 2, SlopeHere(2))
    /\ SlopeExact(nf.roots, guess, 3, SlopeHere(3))
    /\ derivative(nf, guess) # 0

\* ---------------------------------------------------------- Renormalize
\* s / area, component by component
CDivReal(c, k) == <<FDiv(c[1], k), FDiv(c[2], k)>>

C16_ZeroAreaWitness ==
    /\ wpc = "built"
    /\ scaling_type.kind = "Renormalize"
    /\ parts # <<>>
    /\ reported
    /\ scaling = scaling_type.s

\* ------------------------------------------------- Joint and ApproxPart
\* the lower and the upper edge of a joint's band
LowerEdge(j) == JointRange(j)[1]
UpperEdge(j) == JointRange(j)[2]

\* the joint the last call of Joint::eval was made on
CalledJoint == IF jcall.joint = "airy_join_l" THEN airy_join_l ELSE airy_join_r

\* a Joint is its left approximant at the lower edge of its band and its right
\* approximant at the upper edge
JointMeetsItsSides ==
    jcall.op = "Joint::eval" =>
        /\ jcall.x = LowerEdge(CalledJoint) =>
               jcall.v = ApproximantEval(CalledJoint.left, jcall.x)
        /\ jcall.x = UpperEdge(CalledJoint) =>
               jcall.v = ApproximantEval(CalledJoint.right, jcall.x)

\* ApproxPart::eval is the WKB value below the left band, the Airy value between
\* the bands, the WKB value at and above the right band's upper edge, and the
\* joint's value inside a band
DispatchByBand ==
    jcall.op = "ApproxPart::eval" =>
        /\ FLt(jcall.x, LowerEdge(airy_join_l)) => jcall.v = ApproximantEval(wkb, jcall.x)
        /\ is_in_range(JointRange(airy_join_l), jcall.x) =>
               jcall.v = JointEval(airy_join_l, jcall.x)
        /\ (FGe(jcall.x, UpperEdge(airy_join_l)) /\ FLt(jcall.x, LowerEdge(airy_join_r))) =>
               jcall.v = ApproximantEval(airy, jcall.x)
        /\ is_in_range(JointRange(airy_join_r), jcall.x) =>
               jcall.v = JointEval(airy_join_r, jcall.x)
        /\ FGe(jcall.x, UpperEdge(airy_join_r)) => jcall.v = ApproximantEval(wkb, jcall.x)

\* the branch ApproxPart::eval takes just below each point where the dispatch
\* switches gives, at that point, the value ApproxPart::eval returns there
NoJumpAtSwitch ==
    jcall.op = "ApproxPart::eval" =>
        /\ jcall.x = LowerEdge(airy_join_l) => jcall.v = ApproximantEval(wkb, jcall.x)
        /\ jcall.x = UpperEdge(airy_join_l) => jcall.v = JointEval(airy_join_l, jcall.x)
        /\ jcall.x = LowerEdge(airy_join_r) => jcall.v = ApproximantEval(airy, jcall.x)
        /\ jcall.x = UpperEdge(airy_join_r) => jcall.v = JointEval(airy_join_r, jcall.x)

\* C18: evaluation is continuous across every Joint boundary: for either sign of
\* delta a Joint equals its left approximant at the lower edge of its band and its
\* right approximant at the upper edge, and ApproxPart uses the WKB value below the
\* left joint's band, the Airy value between the two bands and the WKB value at
\* and above the right joint's upper edge, so that the value does not jump where
\* the dispatch switches.
C18_ContinuousAcrossJoints == JointMeetsItsSides /\ DispatchByBand /\ NoJumpAtSwitch

\* C18 (witness): the joint of negative delta around airy.ts.0 has been evaluated
\* at the lower edge of its band, where the two approximants differ and the value
\* is the one of its left side, the WKB approximant.
C18_Witness ==
    /\ jcall.op = "Joint::eval"
    /\ jcall.joint = "airy_join_l"
    /\ FLt(airy_join_l.delta, 0)
    /\ jcall.x = LowerEdge(airy_join_l)
    /\ ApproximantEval(wkb, jcall.x) # ApproximantEval(airy, jcall.x)
    /\ jcall.v = ApproximantEval(wkb, jcall.x)

\* ApproxPart::eval has been called at the upper edge of the left band, where the
\* dispatch switches from the joint to the Airy approximant
SwitchReached ==
    /\ jcall.op = "ApproxPart::eval"
    /\ jcall.x = UpperEdge(airy_join_l)
    /\ ApproximantEval(wkb, jcall.x) # ApproximantEval(airy, jcall.x)
    /\ jcall.v = ApproximantEval(airy, jcall.x)

\* Joint::eval has been called inside a band, where the value is neither side's
InsideBand ==
    /\ jcall.op = "Joint::eval"
    /\ jcall.joint = "airy_join_r"
    /\ is_in_range(JointRange(airy_join_r), jcall.x)
    /\ jcall.v # ApproximantEval(wkb, jcall.x)
    /\ jcall.v # ApproximantEval(airy, jcall.x)

\* ----------------------------------------------------- regula_falsi_method
\* regula_falsi_method or regula_falsi_bisection has returned
RegulaReturned ==
    nop \in {"regula_falsi_method", "regula_falsi_bisection"} /\ npc = "returned"

\* the bracket has a change of sign between its ends
BracketChangesSign == check_sign(Apply(nf, bracket[1]), Apply(nf, bracket[2]))

\* C21 (as stated): regula_falsi_method, and regula_falsi_bisection which applies
\* it to the pair from bisection_search_sign_change, only returns a point c with
\* |f(c)| <= precision, and for a bracket that contains a sign change it returns
\* a zero lying inside the initial bracket.
C21_ReturnsZeroInBracket ==
    RegulaReturned =>
        /\ FLe(FAbs(Apply(nf, nout.v)), nprec)
        /\ BracketChangesSign => (FLe(bracket[1], nout.v) /\ FLe(nout.v, bracket[2]))

\* C21 (witness): regula_falsi_method has returned, from a bracket with a change
\* of sign, a zero of f that lies outside that bracket.
C21_Witness ==
    /\ RegulaReturned
    /\ BracketChangesSign
    /\ FLe(FAbs(Apply(nf, nout.v)), nprec)
    /\ (FLt(nout.v, bracket[1]) \/ FGt(nout.v, bracket[2]))

\* regula_falsi_bisection has returned, from a bracket with a change of sign, a
\* value that is no number, which is within no precision of a zero
NaNReturned ==
    /\ RegulaReturned
    /\ nop = "regula_falsi_bisection"
    /\ BracketChangesSign
    /\ IsNaN(nout.v)

\* ------------------------------------------- NewtonsMethodFindNewZero: list
\* C22: the list of recorded zeros only grows: a next_zero call appends exactly
\* one entry when the bounded Newton search succeeds and leaves the list as it
\* is when the search returns nothing; no earlier entry is removed or rewritten,
\* and the value returned is the zero appended.
C22_ListOnlyGrows ==
    [][calls' = calls + 1 =>
          IF fret'.kind = "Some"
          THEN /\ Len(previous_zeros') = Len(previous_zeros) + 1
               /\ SubSeq(previous_zeros', 1, Len(previous_zeros)) = previous_zeros
               /\ previous_zeros'[Len(previous_zeros')][2] = fret'.v
          ELSE /\ fret'.kind = "None"
               /\ previous_zeros' = previous_zeros]_vars

\* C22 (witness): the list holds two zeros, the second one returned by the last
\* call, and the first one still the entry it was.
C22_Witness ==
    /\ Len(previous_zeros) = 2
    /\ fret.kind = "Some"
    /\ previous_zeros[2][2] = fret.v
    /\ previous_zeros[1][2] # previous_zeros[2][2]

\* a call has returned nothing and left a list of one zero as it was
NothingFound == Len(previous_zeros) = 1 /\ fret.kind = "None" /\ calls >= 2

\* C23: every entry of the list carries multiplicity 1 or 2, and a newly found
\* zero z is tagged 2 exactly when the absolute derivative at z of the modified
\* function, deflated by the zeros known before z, is below precision.
C23_MultiplicityOneOrTwo ==
    /\ [](\A j \in 1 .. Len(previous_zeros) : previous_zeros[j][1] \in {1, 2})
    /\ [][(calls' = calls + 1 /\ fret'.kind = "Some"
              /\ Len(previous_zeros') = Len(previous_zeros) + 1) =>
            (previous_zeros'[Len(previous_zeros')][1] = 2
                <=> FLt(FAbs(derivative(ModFn(ff, previous_zeros, fprec), fret'.v)),
                        fprec))]_vars

\* C23 (witness): the list holds a zero tagged 2 and a zero tagged 1.
C23_Witness ==
    /\ \E j \in 1 .. Len(previous_zeros) : previous_zeros[j][1] = 2
    /\ \E j \in 1 .. Len(previous_zeros) : previous_zeros[j][1] = 1

\* ------------------------------------------------------------ modified_func
RECURSIVE ProductOver(_, _, _)
\* the product of (x - z)^m over the first n recorded (m, z)
ProductOver(pz, x, n) ==
    IF n = 0 THEN FromInt(1)
    ELSE FMul(ProductOver(pz, x, n - 1),
              IF pz[n][1] = 2 THEN FMul(FSub(x, pz[n][2]), FSub(x, pz[n][2]))
              ELSE FSub(x, pz[n][2]))

\* the positions modified_func is looked at: the guesses and the recorded zeros
ModifiedAt == Guesses \cup {previous_zeros[j][2] : j \in 1 .. Len(previous_zeros)}

\* what modified_func(x) is divided by, according to the claim
ClaimedDivisor(x) ==
    IF FEq(ProductOver(previous_zeros, x, Len(previous_zeros)), 0) THEN fprec
    ELSE ProductOver(previous_zeros, x, Len(previous_zeros))

\* C24: modified_func(x) is f(x) divided by the product of (x - z)^m over the
\* recorded (m, z), with precision in place of a product that is exactly zero, so
\* that it never divides by exactly zero; with no recorded zeros it is f(x).
C24_DeflatedByRecordedZeros ==
    \A x \in ModifiedAt :
        /\ Apply(ModFn(ff, previous_zeros, fprec), x) =
               FDiv(PolyEval(ff, x), ClaimedDivisor(x))
        /\ ~FEq(NonZero(DivisorFrom(previous_zeros, x, 1, FromInt(1)), fprec), 0)
        /\ previous_zeros = <<>> => Apply(ModFn(ff, previous_zeros, fprec), x) = PolyEval(ff, x)

\* C24 (witness): two zeros are recorded and at the first of them, where the
\* product is exactly zero, modified_func is f divided by precision.
C24_Witness ==
    /\ Len(previous_zeros) = 2
    /\ FEq(ProductOver(previous_zeros, previous_zeros[1][2], 2), 0)
    /\ Apply(ModFn(ff, previous_zeros, fprec), previous_zeros[1][2]) =
           FDiv(PolyEval(ff, previous_zeros[1][2]), fprec)

\* ------------------------------------------------- group_ts: synthetic zeros
\* the zeros group_ts was given, in ascending order
SortedZeros == SortFrom(ts_zeros, 1, <<>>)

\* the smallest zero has a negative sign; the largest zero has a positive sign
SmallestNegative == ts_zeros # <<>> /\ FLt(SignAt(SortedZeros[1]), 0)
LargestPositive == ts_zeros # <<>> /\ FGt(SignAt(SortedZeros[Len(SortedZeros)]), 0)

\* the number of entries in front of the zeros given, and the zeros of the list
FrontCount == IF SmallestNegative THEN 1 ELSE 0
ListedZeros == [j \in DOMAIN derivatives |-> derivatives[j][2]]

\* group_ts is past its first block; past its second block
PastFront == {"back", "back_loop", "back_call", "assert_even", "pair", "pair_call", "returned"}
PastBack == {"assert_even", "pair", "pair_call", "returned"}

\* C25 (as stated): when the smallest zero has a negative sign exactly one
\* synthetic zero is put in front of it, with a non-negative sign and below the
\* smallest zero; when the largest zero has a positive sign exactly one synthetic
\* zero is appended, with a non-positive sign and above the largest zero; in
\* all other cases no zero is added.
C25_OneSyntheticZeroOutside ==
    /\ tpc \in PastFront =>
          /\ SubSeq(ListedZeros, FrontCount + 1, FrontCount + Len(ts_zeros)) = SortedZeros
          /\ SmallestNegative =>
                /\ FGe(derivatives[1][1], 0)
                /\ FLt(derivatives[1][2], SortedZeros[1])
    /\ tpc \in PastFront \ PastBack => Len(derivatives) = FrontCount + Len(ts_zeros)
    /\ tpc \in PastBack =>
          /\ Len(derivatives) = FrontCount + Len(ts_zeros) + (IF LargestPositive THEN 1 ELSE 0)
          /\ LargestPositive =>
                /\ FLe(derivatives[Len(derivatives)][1], 0)
                /\ FGt(derivatives[Len(derivatives)][2], SortedZeros[Len(SortedZeros)])

\* C25 (witness): the smallest zero has a negative sign and the entry put in
\* front of it is no number: regula_falsi_bisection returned NaN, whose sign is
\* NaN, and new_deriv < 0.0 being false ended the loop.
C25_Witness ==
    /\ tpc \in PastFront
    /\ SmallestNegative
    /\ Len(derivatives) >= Len(ts_zeros) + 1
    /\ IsNaN(derivatives[1][1])
    /\ IsNaN(derivatives[1][2])

\* the smallest zero has a negative sign and the entry put in front of it is a
\* number below it, of positive sign
SyntheticBelow ==
    /\ tpc \in PastFront
    /\ SmallestNegative
    /\ Len(derivatives) >= Len(ts_zeros) + 1
    /\ FGt(derivatives[1][1], 0)
    /\ FLt(derivatives[1][2], derivatives[2][2])

\* ------------------------------------------------------------------ C26
\* every float of [approx_inf.0, approx_inf.1), and the parts whose range holds x
FloatsOfInf == {x \in approx_inf[1] .. (approx_inf[2] - 1) : Representable(x)}
PartsHolding(x) == {j \in DOMAIN parts : is_in_range(parts[j].range, x)}
MidOfView == FDiv(FAdd(wview[1], wview[2]), FromInt(2))

\* C26: when the group of turning points is empty the wave function has exactly
\* two pure-WKB parts and no Airy range, the parts have the ranges
\* [approx_inf.0, center) and [center, approx_inf.1) with center the midpoint of
\* the view, and every x of [approx_inf.0, approx_inf.1) is evaluated by exactly
\* one of the two halves
C26_TwoHalvesWithoutTurningPoints ==
    /\ (assembly # "none") => (assembly = "pure_wkb" <=> Len(boundaries) = 0)
    /\ (assembly = "pure_wkb") =>
          /\ Len(parts) = 2
          /\ airy_ranges = <<>>
          /\ parts[1].range = <<approx_inf[1], MidOfView>>
          /\ parts[2].range = <<MidOfView, approx_inf[2]>>
          /\ wkb_ranges = <<parts[1].range, parts[2].range>>
          /\ \A x \in FloatsOfInf :
                /\ Cardinality(PartsHolding(x)) = 1
                /\ calc_psi(parts, x).ok
                /\ calc_psi(parts, x).v = PartEval(parts[IF FLt(x, MidOfView) THEN 1 ELSE 2], x)

\* C26 witness: a wave function built without turning points, whose center lies
\* strictly inside the outer bounds, has answered calc_psi from its upper half
C26_Witness ==
    /\ assembly = "pure_wkb"
    /\ wpc = "built"
    /\ FLt(approx_inf[1], MidOfView) /\ FLt(MidOfView, approx_inf[2])
    /\ wcall.op = "calc_psi" /\ wcall.ok
    /\ FGe(wcall.x, MidOfView)
    /\ wcall.v = PartEval(parts[2], wcall.x)

\* ------------------------------------------------------------------ C27
\* the turning points are ascending and lie inside the outer bounds
TurningPointsInside ==
    /\ \A j \in DOMAIN boundaries :
          FLt(approx_inf[1], boundaries[j][2]) /\ FLt(boundaries[j][2], approx_inf[2])
    /\ \A j \in 1 .. (Len(boundaries) - 1) : FLt(boundaries[j][2], boundaries[j + 1][2])
Contiguous == \A j \in 1 .. (Len(parts) - 1) : parts[j].range[2] = parts[j + 1].range[1]

\* C27: with turning points, ascending and inside the outer bounds, the ranges
\* of the parts are contiguous, do not overlap and cover exactly
\* [approx_inf.0, approx_inf.1): calc_psi succeeds for every x of it and
\* exactly one part holds x
C27_PartsCoverOuterBounds ==
    (assembly = "approx" /\ TurningPointsInside) =>
        /\ Len(parts) = Len(boundaries)
        /\ Contiguous
        /\ parts[1].range[1] = approx_inf[1]
        /\ parts[Len(parts)].range[2] = approx_inf[2]
        /\ \A x \in FloatsOfInf :
              calc_psi(parts, x).ok /\ Cardinality(PartsHolding(x)) = 1

\* C27 witness: a wave function built around a turning point inside the outer
\* bounds whose first range starts above approx_inf.0, and the panic of
\* calc_psi at approx_inf.0
C27_Witness ==
    /\ assembly = "approx" /\ TurningPointsInside
    /\ FLt(approx_inf[1], parts[1].range[1])
    /\ wcall.op = "calc_psi" /\ wcall.x = approx_inf[1] /\ ~wcall.ok
    /\ wpc = "panicked"

\* the ranges between the turning points meet, whatever the outer ones do
InnerRangesMeet ==
    /\ assembly = "approx" /\ Len(parts) = 2
    /\ Contiguous
    /\ wpc = "built"

\* ------------------------------------------------------------------ C28
\* C28: Renormalize never panics on a position out of range: for outer bounds
\* lo < hi, whatever their signs, every sample position from lo * (1 - eps) to
\* hi * (1 - eps) lies inside the range of a part of the assembled wave function
C28_RenormalizeStaysInRange ==
    [][(/\ wpc = "new"
        /\ assembly # "none"
        /\ scaling_type.kind = "Renormalize"
        /\ FLt(approx_inf[1], approx_inf[2])) => wpc' # "panicked"]_vars

\* C28 witness: with positive outer bounds and no turning points the first
\* sample position lies below approx_inf.0, and new has panicked
C28_Witness ==
    /\ assembly = "pure_wkb"
    /\ scaling_type.kind = "Renormalize"
    /\ FLt(0, approx_inf[1]) /\ FLt(approx_inf[1], approx_inf[2])
    /\ FLt(ShrunkBound(approx_inf[1]), approx_inf[1])
    /\ wcall = NoCall
    /\ wpc = "panicked"

\* with a non-positive upper bound the last sample position is not below it
UpperSampleOutside ==
    /\ assembly = "pure_wkb"
    /\ scaling_type.kind = "Renormalize"
    /\ FLe(approx_inf[2], 0)
    /\ FGe(ShrunkBound(approx_inf[2]), approx_inf[2])
    /\ wcall = NoCall
    /\ wpc = "panicked"

\* with outer bounds of opposite signs the samples stay inside
RenormalizedInside ==
    /\ assembly = "pure_wkb"
    /\ scaling_type.kind = "Renormalize"
    /\ FLt(approx_inf[1], 0) /\ FLt(0, approx_inf[2])
    /\ wpc = "built"

====
